---- MODULE Spec2Model ----
(***************************************************************************)
(* Verification model of the wrtvoice Socratic-dialogue server:            *)
(*   - modules/whisper_stt.py   WhisperSTT, the phrase segmenter and its   *)
(*                              background capture producer;               *)
(*   - app.py                   websocket_conversation, the orchestration  *)
(*                              loop of one client connection;             *)
(*   - modules/conversation_manager.py, modules/ollama_client.py           *)
(*                              the turn record and the fragment stream;   *)
(*   - a second client connected to the same session (SpecTwoClients);     *)
(*   - the session files of ConversationManager, written and read as JSON  *)
(*     documents (SpecStore).                                              *)
(*   - the HTTP endpoints of app.py: upload_pdf, start_session and         *)
(*     end_session on their own (SpecService), end_session while a handler *)
(*     runs (SpecEnd);                                                     *)
(*   - get_conversation_history on a growing record (SpecHistory);         *)
(*   - the prompt built for a phrase on records of several lengths         *)
(*     (SpecPrompt);                                                       *)
(*   - two phrases of one session across a reconnect (SpecReconnect).      *)
(*                                                                         *)
(* Time is the wall clock counted in units of 250 ms (the loop's sleep).   *)
(* Straight-line Python and a websocket send are instantaneous; the clock  *)
(* moves while the ASR call runs, while the loop sleeps or waits for a     *)
(* stream fragment and while no handler runs.  The capture thread and the  *)
(* client move between any two steps.                                      *)
(* Texts are sequences of characters; audio is a sequence of bytes, the    *)
(* k-th captured chunk carrying the byte k (or no byte at all).            *)
(***************************************************************************)
EXTENDS Integers, Sequences, FiniteSets, TLC

\* ---------------------------------------------------------------- bounds
MaxTime == 3
MaxChunks == 2
MaxPhraseTimeout == 3
MaxListeners == 2
MaxFragments == 1
MaxScenarioTime == 27
MaxStoreTime == 4
MaxTurns == 2
MaxSessions == 2
MaxLastN == 3

\* ------------------------------------------------------------- constants
\* a datetime that is None
NoTime == -1
\* a session id that is None
NoId == -1
\* app.py:259 last_n=10
HistoryWindow == 10
\* app.py:225 0.5 s between two pausing events, in 250 ms units
PausingThrottle == 2
\* app.py:316 asyncio.sleep(0.25), in 250 ms units
SleepInterval == 1
\* 250 ms units in a second
UnitsPerSecond == 4

\* the last two pausing events of a connection, and whether the throttle
\* timestamp was reset since the last one, and between the two
NoPause == [prev |-> NoTime, last |-> NoTime, reset_between |-> FALSE, reset |-> FALSE]

VARIABLES
    clock,            \* wall clock, 250 ms units
    pushed,           \* chunks the microphone has delivered so far
    \* WhisperSTT fields
    data_queue, phrase_bytes, phrase_time, is_running, listeners, phrase_timeout,
    \* one process_audio_queue call: position, locals, value returned
    seg_pc, now, audio_data, result,
    \* history of the segmenter
    h_lastArrival, h_gapsOK, h_lastAudioTick, h_completions, h_pauseThenAudio,
    h_transcribed,    \* the audio the latest ASR call of the running tick was given
    \* app.py: current_session and the ConversationManager
    session_active, whisper_stt, conversation, disk,
    \* one websocket_conversation call: position, client channel, locals
    pc, client, replay_i, current_student_text, last_pausing_time,
    conversation_history, full_response, frags, wake,
    log,              \* events sent and turns appended since the last tick began
    \* history of the connection
    h_live, h_phrases, h_pause, h_ticked, h_turns, h_capture,
    h_rejected, h_threw,
    h_stopPushed,     \* chunks delivered when stop_listening returned
    h_sendsFailed,    \* sends of this connection that raised
    \* a second client's websocket_conversation call on the same session
    peer, h_peerTicked,
    \* ConversationManager: the other fields of the current session
    session_id, pdf_context, pdf_metadata,
    \* history of the storage: the session as it was at the last save to each
    \* id, the id of the latest load, whether the latest add_message returned
    h_saved, h_loaded, h_returned,
    h_started,        \* the sessions started so far
    \* app.py: the other fields of current_session
    pdf_uploaded, uploaded_context,
    h_ended,          \* end_session has returned for the session started last
    h_reply,          \* status of the latest HTTP reply
    h_last_n          \* argument of the latest get_conversation_history call

segVars == <<data_queue, phrase_bytes, phrase_time, is_running, listeners,
             phrase_timeout, seg_pc, now, audio_data, result>>
segHist == <<h_lastArrival, h_gapsOK, h_lastAudioTick, h_completions, h_pauseThenAudio,
             h_transcribed>>
envVars == <<clock, pushed>>

appVars == <<session_active, whisper_stt, conversation, disk>>
wsVars == <<pc, client, replay_i, current_student_text, last_pausing_time,
            conversation_history, full_response, frags, wake, log>>
wsHist == <<h_live, h_phrases, h_pause, h_ticked, h_turns, h_capture,
            h_rejected, h_threw, h_stopPushed, h_sendsFailed>>
peerVars == <<peer, h_peerTicked>>
\* what no step of the first handler changes
storeVars == <<session_id, pdf_context, pdf_metadata, h_saved, h_loaded, h_returned,
               h_started>>
\* current_session["pdf_uploaded"], current_session["pdf_context"], and what the
\* HTTP endpoints did last
svcVars == <<pdf_uploaded, uploaded_context, h_ended, h_reply, h_last_n>>
otherVars == <<peerVars, storeVars, svcVars>>
orchVars == <<appVars, wsVars, wsHist, otherVars>>

vars == <<envVars, segVars, segHist, appVars, wsVars, wsHist, otherVars>>

\* ------------------------------------------------------------------ text
\* str.strip(): leading and trailing whitespace removed
RECURSIVE lstrip(_)
lstrip(s) == IF s # <<>> /\ Head(s) = " " THEN lstrip(Tail(s)) ELSE s

RECURSIVE rstrip(_)
rstrip(s) == IF s # <<>> /\ s[Len(s)] = " " THEN rstrip(SubSeq(s, 1, Len(s) - 1)) ELSE s

strip(s) == rstrip(lstrip(s))

\* what audio_model.transcribe(...)['text'] may hold
\* (a text is a sequence of tokens: a word, or one blank)
RawTexts ==
    { <<>>, <<" ">>, <<" ", "hello">>, <<" ", "hello", " ", "world">>, <<"hello", " ">> }

\* b''.join(chunks)
RECURSIVE Join(_)
Join(q) == IF q = <<>> THEN <<>> ELSE Head(q) \o Join(Tail(q))

Max(a, b) == IF a >= b THEN a ELSE b

\* --------------------------------------------------- segmenter results
\* the dict process_audio_queue returns; kind distinguishes the dict from
\* None, from a call still running and from a call that raised
Dict(t, complete, pausing, remaining, ts) ==
    [kind |-> "dict", text |-> t, phrase_complete |-> complete,
     pausing |-> pausing, time_remaining |-> remaining, timestamp |-> ts]

Special(k) ==
    [kind |-> k, text |-> <<>>, phrase_complete |-> FALSE,
     pausing |-> FALSE, time_remaining |-> 0, timestamp |-> NoTime]

NoneResult == Special("None")
Running == Special("running")
Raised == Special("raised")

IsPhraseComplete(r) == r.kind = "dict" /\ r.phrase_complete
IsPausing(r) == r.kind = "dict" /\ r.pausing
IsLiveUpdate(r) == r.kind = "dict" /\ ~r.phrase_complete /\ ~r.pausing

\* ------------------------------------------------------ session storage
Turn(ts, speaker, t) == [timestamp |-> ts, speaker |-> speaker, text |-> t]

\* the initial bot greeting start_session appends
Greeting == <<"g">>

\* start_session: the id is the starting second, "%Y-%m-%d_%H-%M-%S"
SessionIdAt(t) == t \div UnitsPerSecond
SessionIds == 0..SessionIdAt(MaxStoreTime)

\* a Python value of the essay metadata: its class and its content
Py(cls, v) == [cls |-> cls, v |-> v]
\* the class json and == go by: TextStringObject is a subclass of str
BaseClass(cls) == IF cls = "TextStringObject" THEN "str" ELSE cls
\* Python's ==
PyEquals(a, b) == BaseClass(a.cls) = BaseClass(b.cls) /\ a.v = b.v
DictEquals(d, e) == DOMAIN d = DOMAIN e /\ \A k \in DOMAIN d : PyEquals(d[k], e[k])

\* the dict {}
EmptyDict == [k \in {} |-> Py("str", "")]
\* pdf_parser.py:75-79 and app.py:104; the title as PyPDF2 gives it: a text
\* string, or a byte string it could not decode
Metadata(title) ==
    [k \in {"title", "pages"} |-> IF k = "title" THEN title ELSE Py("int", "2")]
PdfMetadata == Metadata(Py("TextStringObject", "T"))
MetaDicts == {EmptyDict, PdfMetadata, Metadata(Py("ByteStringObject", "T"))}
Essay == <<"essay">>
Contexts == {Essay}

\* a JSON value in a file
JsonString(v) == [json |-> "string", v |-> v]
JsonNumber(v) == [json |-> "number", v |-> v]

\* json.dump of a value: str and its subclasses become strings, int becomes
\* a number, anything else raises TypeError
Serializable(d) == \A k \in DOMAIN d : BaseClass(d[k].cls) \in {"str", "int"}
json_dump_value(x) == IF BaseClass(x.cls) = "str" THEN JsonString(x.v) ELSE JsonNumber(x.v)
json_dump_dict(d) == [k \in DOMAIN d |-> json_dump_value(d[k])]
json_dump_turn(msg) ==
    [timestamp |-> JsonString(msg.timestamp), speaker |-> JsonString(msg.speaker),
     text |-> JsonString(msg.text)]

\* json.load of a value: a string becomes a str, a number an int
json_load_value(j) == IF j.json = "string" THEN Py("str", j.v) ELSE Py("int", j.v)
json_load_dict(d) == [k \in DOMAIN d |-> json_load_value(d[k])]
json_load_turn(j) == Turn(j.timestamp.v, j.speaker.v, j.text.v)

\* a file of the storage directory: absent, a whole JSON document, or the
\* part of a document a failed write left
File(state, id, ctx, meta, turns) ==
    [state |-> state, session_id |-> id, pdf_context |-> ctx, pdf_metadata |-> meta,
     conversation |-> turns, message_count |-> Len(turns)]
NoFile == File("absent", NoId, JsonString(<<>>), EmptyDict, <<>>)
PartialFile == File("partial", NoId, JsonString(<<>>), EmptyDict, <<>>)

\* save_session lines 146-161: the document written
SessionData(id, ctx, meta, turns) ==
    File("json", id, JsonString(ctx), json_dump_dict(meta),
         [i \in 1..Len(turns) |-> json_dump_turn(turns[i])])

\* save_session with the turns given: the file named by the session id is
\* rewritten as a whole
Saved(turns) ==
    [disk EXCEPT ![session_id] = SessionData(session_id, pdf_context, pdf_metadata, turns)]

\* the turns in the file of the current session
LoadedTurns(file) == [i \in 1..Len(file.conversation) |-> json_load_turn(file.conversation[i])]
Persisted ==
    IF session_id \in SessionIds /\ disk[session_id].state = "json"
    THEN LoadedTurns(disk[session_id])
    ELSE <<>>

\* the session as save_session sees it
Snapshot(saved, turns, ctx, meta) ==
    [saved |-> saved, conversation |-> turns, pdf_context |-> ctx, pdf_metadata |-> meta]
NoSnapshot == Snapshot(FALSE, <<>>, <<>>, EmptyDict)

\* the sessions started so far, oldest first: the id each was given, whether a
\* save of it has returned, and whether the manager still holds it
Started(id, saved, held) == [id |-> id, saved |-> saved, held |-> held]
Released(started) == [i \in 1..Len(started) |-> [started[i] EXCEPT !.held = FALSE]]
MarkSaved(started) ==
    [i \in 1..Len(started) |-> [started[i] EXCEPT !.saved = @ \/ started[i].held]]

\* ConversationManager.__init__, and an empty storage directory
NewConversationManager ==
    /\ session_id = NoId
    /\ pdf_context = <<>>
    /\ pdf_metadata = EmptyDict
    /\ conversation = <<>>
    /\ disk = [id \in SessionIds |-> NoFile]
    /\ h_saved = [id \in SessionIds |-> NoSnapshot]
    /\ h_loaded = NoId
    /\ h_returned = FALSE
    /\ h_started = <<>>

\* app.py:140-150: the session started at time 0 with an uploaded essay, the
\* greeting appended and saved
StartedSession ==
    /\ session_id = 0
    /\ pdf_context = Essay
    /\ pdf_metadata = PdfMetadata
    /\ conversation = <<Turn(0, "bot", Greeting)>>
    /\ disk = [id \in SessionIds |->
                 IF id = 0 THEN SessionData(0, Essay, PdfMetadata, conversation) ELSE NoFile]
    /\ h_saved = [id \in SessionIds |->
                    IF id = 0 THEN Snapshot(TRUE, conversation, Essay, PdfMetadata)
                    ELSE NoSnapshot]
    /\ h_loaded = NoId
    /\ h_returned = TRUE
    /\ h_started = <<Started(0, TRUE, TRUE)>>

\* ConversationManager.add_message without the save at line 94
AddMessageNoSave(speaker, t) ==
    /\ session_id # NoId
    /\ Serializable(pdf_metadata)
    /\ conversation' = Append(conversation, Turn(clock, speaker, t))
    /\ UNCHANGED disk

\* ConversationManager.add_message returns: the turn is appended, then
\* save_session writes the whole session to its file
add_message(speaker, t) ==
    /\ session_id # NoId
    /\ Serializable(pdf_metadata)
    /\ conversation' = Append(conversation, Turn(clock, speaker, t))
    /\ disk' = Saved(conversation')

\* ConversationManager.add_message raises: the turn is appended, then
\* save_session raises ValueError (no session id, line 143), TypeError from
\* json.dump (a value that cannot be written, after the file was opened and
\* partly written) or OSError (from open, or from a write)
add_message_raises(speaker, t) ==
    /\ conversation' = Append(conversation, Turn(clock, speaker, t))
    /\ IF session_id = NoId
       THEN UNCHANGED disk
       ELSE IF ~Serializable(pdf_metadata)
       THEN disk' = [disk EXCEPT ![session_id] = PartialFile]
       ELSE \E file \in {disk[session_id], PartialFile} :
                disk' = [disk EXCEPT ![session_id] = file]

\* ------------------------------------------------------- capture thread
\* _record_callback held back while the handler answers a phrase
CaptureWaitsForAnswer ==
    /\ pc \notin {"student", "history", "stream", "stream_done", "bot"}
    /\ listeners > 0
    /\ pushed < MaxChunks
    /\ \E data \in { <<pushed + 1>>, <<>> } :
           data_queue' = Append(data_queue, data)
    /\ pushed' = pushed + 1
    /\ UNCHANGED <<clock, phrase_bytes, phrase_time, is_running, listeners,
                   phrase_timeout, seg_pc, now, audio_data, result>>

\* WhisperSTT._record_callback, run by a listen_in_background thread
record_callback ==
    /\ listeners > 0
    /\ pushed < MaxChunks
    /\ \E data \in { <<pushed + 1>>, <<>> } :
           data_queue' = Append(data_queue, data)
    /\ pushed' = pushed + 1
    /\ UNCHANGED <<clock, phrase_bytes, phrase_time, is_running, listeners,
                   phrase_timeout, seg_pc, now, audio_data, result>>

\* WhisperSTT.start_listening: listen_in_background starts one more thread
start_listening ==
    /\ IF is_running
       THEN UNCHANGED <<is_running, listeners>>
       ELSE /\ listeners < MaxListeners
            /\ listeners' = listeners + 1
            /\ is_running' = TRUE
    /\ UNCHANGED <<data_queue, phrase_bytes, phrase_time, phrase_timeout,
                   seg_pc, now, audio_data, result>>

\* WhisperSTT.stop_listening: only the flag is cleared
stop_listening ==
    /\ is_running' = FALSE
    /\ UNCHANGED <<listeners, data_queue, phrase_bytes, phrase_time, phrase_timeout,
                   seg_pc, now, audio_data, result>>

\* ---------------------------------------------- process_audio_queue
\* lines 177-178: the time left of the countdown at time n
TimeRemainingShort(n) == phrase_timeout - (n - phrase_time) - UnitsPerSecond

time_remaining(n) == phrase_timeout - (n - phrase_time)

\* line 184: the countdown has finished
TimedOutEarly(n) == n - phrase_time >= phrase_timeout - 1

\* line 184 with > in place of >=
TimedOutLate(n) == n - phrase_time > phrase_timeout

TimedOut(n) == n - phrase_time >= phrase_timeout

\* lines 135-142 (new audio: the queue is joined), or the whole call when
\* there is no new audio and no transcription is needed (lines 171-182, 209-217)
process_audio_queue_begin ==
    /\ seg_pc = "idle"
    /\ IF data_queue # <<>>
       THEN /\ now' = clock
            /\ audio_data' = Join(data_queue)
            /\ seg_pc' = "clear"
            /\ result' = Running
       ELSE IF phrase_time = NoTime \/ phrase_bytes = <<>>
       THEN /\ result' = NoneResult
            /\ UNCHANGED <<now, audio_data, seg_pc>>
       ELSE IF TimedOut(clock)
       THEN /\ now' = clock
            /\ seg_pc' = "asr_final"
            /\ result' = Running
            /\ UNCHANGED audio_data
       ELSE /\ result' = Dict(<<>>, FALSE, TRUE,
                              Max(0, time_remaining(clock)), clock)
            /\ UNCHANGED <<now, audio_data, seg_pc>>
    /\ UNCHANGED <<data_queue, phrase_bytes, phrase_time, is_running, listeners,
                   phrase_timeout>>

\* lines 143-149: the queue is cleared, the timestamp set, the audio accumulated
ClearKeepCountdown ==
    /\ seg_pc = "clear"
    /\ data_queue' = <<>>
    /\ phrase_time' = IF phrase_time = NoTime THEN now ELSE phrase_time
    /\ phrase_bytes' = phrase_bytes \o audio_data
    /\ audio_data' = <<>>
    /\ seg_pc' = "asr_live"
    /\ UNCHANGED <<is_running, listeners, phrase_timeout, now, result>>

\* lines 143-149 with phrase_bytes = audio_data in place of +=
ClearReplacesBuffer ==
    /\ seg_pc = "clear"
    /\ data_queue' = <<>>
    /\ phrase_time' = now
    /\ phrase_bytes' = audio_data
    /\ audio_data' = <<>>
    /\ seg_pc' = "asr_live"
    /\ UNCHANGED <<is_running, listeners, phrase_timeout, now, result>>

process_audio_queue_clear ==
    /\ seg_pc = "clear"
    /\ data_queue' = <<>>
    /\ phrase_time' = now
    /\ phrase_bytes' = phrase_bytes \o audio_data
    /\ audio_data' = <<>>
    /\ seg_pc' = "asr_live"
    /\ UNCHANGED <<is_running, listeners, phrase_timeout, now, result>>

\* lines 151-169: the whole buffer is transcribed, the live result returned
process_audio_queue_live ==
    /\ seg_pc = "asr_live"
    /\ \E raw \in RawTexts :
           result' = Dict(strip(raw), FALSE, FALSE, phrase_timeout, now)
    /\ seg_pc' = "idle"
    /\ now' = NoTime
    /\ UNCHANGED <<data_queue, phrase_bytes, phrase_time, is_running, listeners,
                   phrase_timeout, audio_data>>

\* lines 188-207: the final transcription, the reset, the complete result
FinalKeepState ==
    /\ seg_pc = "asr_final"
    /\ \E raw \in RawTexts :
           result' = Dict(strip(raw), TRUE, FALSE, 0, now)
    /\ seg_pc' = "idle"
    /\ now' = NoTime
    /\ UNCHANGED <<data_queue, phrase_bytes, phrase_time, is_running, listeners,
                   phrase_timeout, audio_data>>

process_audio_queue_final ==
    /\ seg_pc = "asr_final"
    /\ \E raw \in RawTexts :
           result' = Dict(strip(raw), TRUE, FALSE, 0, now)
    /\ phrase_bytes' = <<>>
    /\ phrase_time' = NoTime
    /\ seg_pc' = "idle"
    /\ now' = NoTime
    /\ UNCHANGED <<data_queue, is_running, listeners, phrase_timeout, audio_data>>

\* lines 189-194 with the reset ahead of the transcription that raises
RaiseAfterReset ==
    /\ seg_pc \in {"asr_live", "asr_final"}
    /\ result' = Raised
    /\ phrase_bytes' = <<>>
    /\ phrase_time' = NoTime
    /\ seg_pc' = "idle"
    /\ now' = NoTime
    /\ UNCHANGED <<data_queue, is_running, listeners, phrase_timeout, audio_data>>

\* lines 152-153, 189-190: np.frombuffer or transcribe raises; the exception
\* leaves process_audio_queue with the state as it is
process_audio_queue_raise ==
    /\ seg_pc \in {"asr_live", "asr_final"}
    /\ result' = Raised
    /\ seg_pc' = "idle"
    /\ now' = NoTime
    /\ UNCHANGED <<data_queue, phrase_bytes, phrase_time, is_running, listeners,
                   phrase_timeout, audio_data>>

\* ------------------------------------------------------------ the clock
\* 250 ms pass: while the ASR call runs, while the loop sleeps or waits for
\* a stream fragment, while no handler runs; not inside straight-line code
\* or a send
AdvanceTo(limit) ==
    /\ clock < limit
    /\ seg_pc # "clear"
    /\ pc \in {"none", "done", "in_tick", "sleeping", "stream"}
    /\ clock' = clock + 1
    /\ UNCHANGED pushed

Advance == AdvanceTo(MaxTime)

\* ------------------------------------------- the segmenter on its own
\* WhisperSTT.__init__ with the given phrase_timeout
NewWhisperSTT(timeout) ==
    /\ data_queue = <<>>
    /\ phrase_bytes = <<>>
    /\ phrase_time = NoTime
    /\ is_running = FALSE
    /\ listeners = 0
    /\ phrase_timeout = timeout
    /\ seg_pc = "idle"
    /\ now = NoTime
    /\ audio_data = <<>>
    /\ result = NoneResult
    /\ h_lastArrival = NoTime
    /\ h_gapsOK = TRUE
    /\ h_lastAudioTick = NoTime
    /\ h_completions = 0
    /\ h_pauseThenAudio = FALSE
    /\ h_transcribed = <<>>

InitSegmenter == \E timeout \in 2..MaxPhraseTimeout : NewWhisperSTT(timeout)

\* app.py:41-47: nothing uploaded, no request served yet
NoUpload ==
    /\ pdf_uploaded = FALSE
    /\ uploaded_context = <<>>
    /\ h_ended = FALSE
    /\ h_reply = "none"

\* app.py:101-102: the essay was uploaded
EssayUploaded ==
    /\ pdf_uploaded = TRUE
    /\ uploaded_context = Essay
    /\ h_ended = FALSE
    /\ h_reply = "200"

\* no session, no connection
InitIdleApp ==
    /\ session_active = FALSE
    /\ whisper_stt = FALSE
    /\ NewConversationManager
    /\ NoUpload

InitNoHandler ==
    /\ pc = "none"
    /\ client = "none"
    /\ replay_i = 0
    /\ current_student_text = <<>>
    /\ last_pausing_time = NoTime
    /\ conversation_history = <<>>
    /\ full_response = <<>>
    /\ frags = 0
    /\ wake = 0
    /\ log = <<>>
    /\ h_live = <<>>
    /\ h_phrases = 0
    /\ h_pause = NoPause
    /\ h_turns = 0
    /\ h_ticked = FALSE
    /\ h_capture = FALSE
    /\ h_rejected = FALSE
    /\ h_threw = FALSE
    /\ h_stopPushed = NoTime
    /\ h_sendsFailed = 0
    /\ peer = "none"
    /\ h_peerTicked = FALSE
    /\ h_last_n = 0

InitSeg ==
    /\ clock = 0
    /\ pushed = 0
    /\ InitSegmenter
    /\ InitIdleApp
    /\ InitNoHandler

\* a chunk arrives
SegPush ==
    /\ record_callback
    /\ h_lastArrival' = clock
    /\ h_gapsOK' = (h_gapsOK /\ (h_lastArrival = NoTime
                                 \/ clock - h_lastArrival < phrase_timeout))
    /\ UNCHANGED <<h_lastAudioTick, h_completions, h_pauseThenAudio, h_transcribed,
                   orchVars>>

SegStart == start_listening /\ UNCHANGED <<envVars, segHist, orchVars>>
SegStop == stop_listening /\ UNCHANGED <<envVars, segHist, orchVars>>

\* a tick is called ...
SegBegin ==
    /\ process_audio_queue_begin
    /\ h_pauseThenAudio' = (h_pauseThenAudio
                            \/ (data_queue # <<>> /\ IsPausing(result)
                                /\ result.time_remaining = 1))
    /\ h_transcribed' = <<>>
    /\ UNCHANGED <<h_lastArrival, h_gapsOK, h_lastAudioTick, h_completions>>
    /\ UNCHANGED <<envVars, orchVars>>

\* ... takes the new audio ...
SegClear ==
    /\ process_audio_queue_clear
    /\ h_lastAudioTick' = now
    /\ h_completions' = 0
    /\ UNCHANGED <<h_lastArrival, h_gapsOK, h_pauseThenAudio, h_transcribed>>
    /\ UNCHANGED <<envVars, orchVars>>

\* ... and returns a live update, or a complete phrase, or raises
SegLive ==
    /\ process_audio_queue_live
    /\ h_transcribed' = phrase_bytes
    /\ UNCHANGED <<h_lastArrival, h_gapsOK, h_lastAudioTick, h_completions,
                   h_pauseThenAudio>>
    /\ UNCHANGED <<envVars, orchVars>>

SegFinal ==
    /\ process_audio_queue_final
    /\ h_completions' = h_completions + 1
    /\ h_pauseThenAudio' = FALSE
    /\ h_transcribed' = phrase_bytes
    /\ UNCHANGED <<h_lastArrival, h_gapsOK, h_lastAudioTick>>
    /\ UNCHANGED <<envVars, orchVars>>

SegRaise == process_audio_queue_raise /\ UNCHANGED <<envVars, segHist, orchVars>>
SegAdvance == Advance /\ UNCHANGED <<segVars, segHist, orchVars>>

NextSeg ==
    \/ SegPush
    \/ SegStart
    \/ SegStop
    \/ SegBegin
    \/ SegClear
    \/ SegLive
    \/ SegFinal
    \/ SegRaise
    \/ SegAdvance

SpecSeg == InitSeg /\ [][NextSeg]_vars

\* fair ticking, a clock that runs and an ASR call that returns
SpecSegFair ==
    /\ SpecSeg
    /\ WF_vars(SegBegin)
    /\ WF_vars(SegClear)
    /\ WF_vars(SegLive)
    /\ SF_vars(SegFinal)
    /\ WF_vars(SegAdvance)

\* ------------------------------------------------- conversation record
\* ConversationManager.get_conversation_history
get_conversation_history(last_n) ==
    IF last_n = 0
    THEN conversation
    ELSE SubSeq(conversation, Max(1, Len(conversation) - last_n + 1), Len(conversation))


\* ------------------------------------------------------ client events
\* a JSON message sent to the client; type "append" and "close" are not
\* messages: they record a turn appended and the channel closed, in order
Event(type, status, t, complete, remaining) ==
    [type |-> type, status |-> status, text |-> t,
     phrase_complete |-> complete, time_remaining |-> remaining]

Ready == Event("ready", "", <<>>, FALSE, 0)
Status(kind) == Event("status", kind, <<>>, FALSE, 0)
StatusPausing(remaining) == Event("status", "pausing", <<>>, FALSE, remaining)
Transcription(t, complete) == Event("transcription", "", t, complete, 0)
BotResponse(t) == Event("bot_response", "", t, TRUE, 0)
ResponseChunk(t) == Event("bot_response_chunk", "", t, FALSE, 0)
ResponseComplete(t) == Event("bot_response_complete", "", t, FALSE, 0)
Error == Event("error", "", <<>>, FALSE, 0)
RejectError == Event("untyped_error", "", <<>>, FALSE, 0)
Appended(speaker, t) == Event("append", speaker, t, FALSE, 0)
Closed == Event("close", "", <<>>, FALSE, 0)

\* ----------------------------------------------------- the LLM stream

\* the k-th fragment of a response
Fragment(k) == <<ToString(k)>>
\* ollama_client.py:190
ErrorFragment == <<"[Error]">>

\* app.py:272 full_response += chunk
AccumulateOverwrite(full, chunk) == chunk

Accumulate(full, chunk) == full \o chunk

\* ------------------------------------------------ websocket_conversation
segFields == <<data_queue, phrase_bytes, phrase_time, listeners, phrase_timeout,
               seg_pc, now, audio_data, result>>
locals == <<replay_i, current_student_text, last_pausing_time,
            conversation_history, full_response, frags, wake>>

\* lines 318-326: the handler ends: an except clause, then the finally block
\* stops listening; threw = the exception leaves the handler
Exit(threw, events) ==
    /\ pc' = "done"
    /\ is_running' = FALSE
    /\ h_threw' = threw
    /\ h_stopPushed' = pushed
    /\ client' = IF client = "open" THEN "closed" ELSE client
    /\ log' = log \o events
    /\ replay_i' = 0
    /\ current_student_text' = <<>>
    /\ last_pausing_time' = NoTime
    /\ conversation_history' = <<>>
    /\ full_response' = <<>>
    /\ frags' = 0
    /\ wake' = 0
    /\ UNCHANGED <<session_active, whisper_stt, segFields>>
    /\ UNCHANGED <<h_live, h_phrases, h_pause, h_ticked, h_turns, h_capture,
                   h_rejected>>

\* a send on a channel the client has left raises WebSocketDisconnect (line
\* 318) or, with other server versions, another exception (line 320), whose
\* handler's own send at line 322 then raises out of the call
SendRaisesAfter(events) ==
    /\ client # "open"
    /\ \E threw \in BOOLEAN :
           /\ Exit(threw, events)
           /\ h_sendsFailed' = h_sendsFailed + (IF threw THEN 2 ELSE 1)

SendRaises == SendRaisesAfter(<<>>)

\* line 316
Sleep ==
    /\ pc' = "sleeping"
    /\ wake' = clock + SleepInterval

\* a client opens the websocket; line 180 accepts it
ws_connect ==
    /\ pc \in {"none", "done"}
    /\ pc' = "accepted"
    /\ client' = "open"
    /\ log' = <<>>
    /\ replay_i' = 0
    /\ current_student_text' = <<>>
    /\ last_pausing_time' = NoTime
    /\ conversation_history' = <<>>
    /\ full_response' = <<>>
    /\ frags' = 0
    /\ wake' = 0
    /\ h_live' = <<>>
    /\ h_phrases' = 0
    /\ h_pause' = NoPause
    /\ h_turns' = Len(conversation)
    /\ h_ticked' = FALSE
    /\ h_capture' = FALSE
    /\ h_rejected' = FALSE
    /\ h_threw' = FALSE
    /\ h_stopPushed' = NoTime
    /\ h_sendsFailed' = 0
    /\ UNCHANGED <<envVars, segVars, segHist, otherVars, appVars>>

\* the client goes away
client_disconnect ==
    /\ client = "open"
    /\ pc \notin {"none", "done"}
    /\ client' = "gone"
    /\ UNCHANGED <<envVars, segVars, segHist, otherVars, appVars, pc, locals, log, wsHist>>

\* lines 182-192: the connection is refused (outside the try block)
RejectAfterCapture ==
    /\ pc = "accepted"
    /\ ~(session_active /\ whisper_stt)
    /\ start_listening
    /\ h_capture' = TRUE
    /\ h_rejected' = TRUE
    /\ IF client = "open"
       THEN /\ log' = Append(log, RejectError)
            /\ pc' = "closing"
            /\ UNCHANGED h_threw
       ELSE /\ pc' = "done"
            /\ h_threw' = TRUE
            /\ UNCHANGED log
    /\ UNCHANGED <<envVars, segHist, otherVars, appVars, client, locals>>
    /\ UNCHANGED <<h_live, h_phrases, h_pause, h_ticked, h_turns>>
    /\ UNCHANGED h_stopPushed
    /\ h_sendsFailed' = IF client = "open" THEN h_sendsFailed ELSE h_sendsFailed + 1

ws_reject ==
    /\ pc = "accepted"
    /\ ~(session_active /\ whisper_stt)
    /\ h_rejected' = TRUE
    /\ IF client = "open"
       THEN /\ log' = Append(log, RejectError)
            /\ pc' = "closing"
            /\ UNCHANGED h_threw
       ELSE /\ pc' = "done"
            /\ h_threw' = TRUE
            /\ UNCHANGED log
    /\ UNCHANGED <<envVars, segVars, segHist, otherVars, appVars, client, locals>>
    /\ UNCHANGED <<h_live, h_phrases, h_pause, h_ticked, h_turns, h_capture>>
    /\ UNCHANGED h_stopPushed
    /\ h_sendsFailed' = IF client = "open" THEN h_sendsFailed ELSE h_sendsFailed + 1

\* lines 184-185, 191-192: close, return
ws_close ==
    /\ pc = "closing"
    /\ pc' = "done"
    /\ IF client = "open"
       THEN /\ client' = "closed"
            /\ log' = Append(log, Closed)
            /\ UNCHANGED h_threw
       ELSE /\ h_threw' = TRUE
            /\ UNCHANGED <<client, log>>
    /\ UNCHANGED <<envVars, segVars, segHist, otherVars, appVars, locals>>
    /\ UNCHANGED <<h_live, h_phrases, h_pause, h_ticked, h_turns, h_capture,
                   h_rejected>>
    /\ UNCHANGED h_stopPushed
    /\ UNCHANGED h_sendsFailed

\* lines 194-199 without the replay loop of lines 202-208
StartWithoutReplay ==
    /\ pc = "accepted"
    /\ session_active /\ whisper_stt
    /\ start_listening
    /\ h_capture' = TRUE
    /\ IF client = "open"
       THEN /\ log' = Append(log, Ready)
            /\ pc' = "tick"
            /\ replay_i' = 1
       ELSE /\ pc' = "unwind"
            /\ UNCHANGED <<log, replay_i>>
    /\ UNCHANGED <<envVars, segHist, otherVars, appVars, client, current_student_text,
                   last_pausing_time, conversation_history, full_response, frags, wake>>
    /\ UNCHANGED <<h_live, h_phrases, h_pause, h_ticked, h_turns, h_rejected,
                   h_threw, h_stopPushed, h_sendsFailed>>

\* lines 194-199: capture is started, Ready is sent
ws_start ==
    /\ pc = "accepted"
    /\ session_active /\ whisper_stt
    /\ start_listening
    /\ h_capture' = TRUE
    /\ IF client = "open"
       THEN /\ log' = Append(log, Ready)
            /\ pc' = IF conversation = <<>> THEN "tick" ELSE "replay"
            /\ replay_i' = 1
       ELSE /\ pc' = "unwind"
            /\ UNCHANGED <<log, replay_i>>
    /\ UNCHANGED <<envVars, segHist, otherVars, appVars, client, current_student_text,
                   last_pausing_time, conversation_history, full_response, frags, wake>>
    /\ UNCHANGED <<h_live, h_phrases, h_pause, h_ticked, h_turns, h_rejected,
                   h_threw, h_stopPushed, h_sendsFailed>>

\* the send at line 199 raised: the except clauses and the finally block
ws_unwind ==
    /\ pc = "unwind"
    /\ SendRaises
    /\ UNCHANGED <<envVars, segHist, otherVars, conversation, disk>>

\* lines 202-208: one turn of the record is replayed
ws_replay ==
    /\ pc = "replay"
    /\ \/ /\ client = "open"
          /\ replay_i <= Len(conversation)
          /\ LET msg == conversation[replay_i] IN
               log' = Append(log, IF msg.speaker = "bot"
                                  THEN BotResponse(msg.text)
                                  ELSE Transcription(msg.text, TRUE))
          /\ replay_i' = replay_i + 1
          /\ pc' = IF replay_i + 1 > Len(conversation) THEN "tick" ELSE "replay"
          /\ UNCHANGED <<segVars, appVars, client, current_student_text,
                         last_pausing_time, conversation_history, full_response,
                         frags, wake, wsHist>>
       \/ /\ SendRaises
          /\ UNCHANGED <<conversation, disk>>
    /\ UNCHANGED <<envVars, segHist, otherVars>>

\* line 217: process_audio_queue is called
ws_tick_begin ==
    /\ pc = "tick"
    /\ process_audio_queue_begin
    /\ pc' = IF seg_pc' = "idle" THEN "dispatch" ELSE "in_tick"
    /\ log' = <<>>
    /\ h_ticked' = TRUE
    /\ h_turns' = Len(conversation)
    /\ UNCHANGED <<envVars, segHist, otherVars, appVars, client, locals>>
    /\ UNCHANGED <<h_live, h_phrases, h_pause, h_capture, h_rejected, h_threw, h_stopPushed, h_sendsFailed>>

ws_tick_clear ==
    /\ pc = "in_tick"
    /\ process_audio_queue_clear
    /\ UNCHANGED <<envVars, segHist, orchVars>>

ws_tick_live ==
    /\ pc = "in_tick"
    /\ process_audio_queue_live
    /\ pc' = "dispatch"
    /\ UNCHANGED <<envVars, segHist, otherVars, appVars, client, locals, log, wsHist>>

ws_tick_final ==
    /\ pc = "in_tick"
    /\ process_audio_queue_final
    /\ pc' = "dispatch"
    /\ UNCHANGED <<envVars, segHist, otherVars, appVars, client, locals, log, wsHist>>

\* the ASR call raises: the exception reaches line 320
ws_tick_raise ==
    /\ pc = "in_tick"
    /\ process_audio_queue_raise
    /\ pc' = "except"
    /\ UNCHANGED <<envVars, segHist, otherVars, appVars, client, locals, log, wsHist>>

\* lines 320-326: the error is sent, then the finally block
ws_except ==
    /\ pc = "except"
    /\ IF client = "open"
       THEN Exit(FALSE, <<Error>>) /\ UNCHANGED h_sendsFailed
       ELSE Exit(TRUE, <<>>) /\ h_sendsFailed' = h_sendsFailed + 1
    /\ UNCHANGED <<envVars, segHist, otherVars, conversation, disk>>

\* line 219: the result is None
ws_none ==
    /\ pc = "dispatch"
    /\ result.kind = "None"
    /\ Sleep
    /\ UNCHANGED <<envVars, segVars, segHist, otherVars, appVars, client, replay_i,
                   current_student_text, last_pausing_time, conversation_history,
                   full_response, frags, log, wsHist>>

\* line 225: the last pausing event is at least 0.5 s old
ThrottleHalved == last_pausing_time = NoTime \/ clock - last_pausing_time >= PausingThrottle - 1

ThrottleOpen == last_pausing_time = NoTime \/ clock - last_pausing_time >= PausingThrottle

\* lines 221-231: the countdown
ws_pausing ==
    /\ pc = "dispatch"
    /\ IsPausing(result)
    /\ \/ /\ ~ThrottleOpen
          /\ Sleep
          /\ UNCHANGED <<segVars, appVars, client, replay_i, current_student_text,
                         last_pausing_time, conversation_history, full_response,
                         frags, log, wsHist>>
       \/ /\ ThrottleOpen
          /\ client = "open"
          /\ log' = Append(log, StatusPausing(result.time_remaining))
          /\ last_pausing_time' = clock
          /\ h_pause' = [prev |-> h_pause.last, last |-> clock,
                          reset_between |-> h_pause.reset, reset |-> FALSE]
          /\ Sleep
          /\ UNCHANGED <<segVars, appVars, client, replay_i, current_student_text,
                         conversation_history, full_response, frags>>
          /\ UNCHANGED <<h_live, h_phrases, h_ticked, h_turns, h_capture, h_rejected, h_threw, h_stopPushed, h_sendsFailed>>
       \/ /\ ThrottleOpen
          /\ SendRaises
          /\ UNCHANGED <<conversation, disk>>
    /\ UNCHANGED <<envVars, segHist, otherVars>>

\* line 238: not text.strip()
IsBlankNever(t) == FALSE

IsBlank(t) == strip(t) = <<>>

\* lines 234-242 without the reset of line 240
PhraseEmptyKeepsText ==
    /\ pc = "dispatch"
    /\ IsPhraseComplete(result)
    /\ IsBlank(result.text)
    /\ \/ /\ client = "open"
          /\ log' = Append(log, Status("listening"))
          /\ UNCHANGED current_student_text
          /\ last_pausing_time' = NoTime
          /\ pc' = "tick"
          /\ h_phrases' = h_phrases + 1
          /\ h_pause' = [h_pause EXCEPT !.reset = TRUE]
          /\ UNCHANGED <<segVars, appVars, client, replay_i, conversation_history,
                         full_response, frags, wake>>
          /\ UNCHANGED <<h_live, h_ticked, h_turns, h_capture, h_rejected, h_threw, h_stopPushed, h_sendsFailed>>
       \/ /\ SendRaises
          /\ UNCHANGED <<conversation, disk>>
    /\ UNCHANGED <<envVars, segHist, otherVars>>

\* lines 234-242: an empty phrase: Status(listening), continue
ws_phrase_empty ==
    /\ pc = "dispatch"
    /\ IsPhraseComplete(result)
    /\ IsBlank(result.text)
    /\ \/ /\ client = "open"
          /\ log' = Append(log, Status("listening"))
          /\ current_student_text' = <<>>
          /\ last_pausing_time' = NoTime
          /\ pc' = "tick"
          /\ h_phrases' = h_phrases + 1
          /\ h_pause' = [h_pause EXCEPT !.reset = TRUE]
          /\ UNCHANGED <<segVars, appVars, client, replay_i, conversation_history,
                         full_response, frags, wake>>
          /\ UNCHANGED <<h_live, h_ticked, h_turns, h_capture, h_rejected, h_threw, h_stopPushed, h_sendsFailed>>
       \/ /\ SendRaises
          /\ UNCHANGED <<conversation, disk>>
    /\ UNCHANGED <<envVars, segHist, otherVars>>

\* lines 244-250: the final transcription is sent
ws_phrase_complete ==
    /\ pc = "dispatch"
    /\ IsPhraseComplete(result)
    /\ ~IsBlank(result.text)
    /\ \/ /\ client = "open"
          /\ log' = Append(log, Transcription(result.text, TRUE))
          /\ pc' = "student"
          /\ h_phrases' = h_phrases + 1
          /\ UNCHANGED <<segVars, appVars, client, locals>>
          /\ UNCHANGED <<h_live, h_pause, h_ticked, h_turns, h_capture,
                         h_rejected, h_threw, h_stopPushed, h_sendsFailed>>
       \/ /\ SendRaises
          /\ UNCHANGED <<conversation, disk>>
    /\ UNCHANGED <<envVars, segHist, otherVars>>

\* lines 252-256: the student turn is appended, Status(analyzing) is sent
StudentAnnouncedFirst ==
    /\ pc = "student"
    /\ add_message("student", result.text)
    /\ \/ /\ client = "open"
          /\ log' = log \o <<Status("analyzing"), Appended("student", result.text)>>
          /\ pc' = "history"
          /\ UNCHANGED <<segVars, session_active, whisper_stt, client, locals, wsHist>>
       \/ SendRaises
    /\ UNCHANGED <<envVars, segHist, otherVars>>

ws_student ==
    /\ pc = "student"
    /\ add_message("student", result.text)
    /\ \/ /\ client = "open"
          /\ log' = log \o <<Appended("student", result.text), Status("analyzing")>>
          /\ pc' = "history"
          /\ UNCHANGED <<segVars, session_active, whisper_stt, client, locals, wsHist>>
       \/ SendRaisesAfter(<<Appended("student", result.text)>>)
    /\ UNCHANGED <<envVars, segHist, otherVars>>

\* lines 258-265: the recent history is read, Status(responding) is sent
ws_history ==
    /\ pc = "history"
    /\ \/ /\ client = "open"
          /\ conversation_history' = get_conversation_history(HistoryWindow)
          /\ log' = Append(log, Status("responding"))
          /\ full_response' = <<>>
          /\ frags' = 0
          /\ pc' = "stream"
          /\ UNCHANGED <<segVars, appVars, client, replay_i, current_student_text,
                         last_pausing_time, wake, wsHist>>
       \/ /\ SendRaises
          /\ UNCHANGED <<conversation, disk>>
    /\ UNCHANGED <<envVars, segHist, otherVars>>

\* lines 266-278 and ollama_client.py:179-187: one line of the HTTP stream; an
\* empty "response" is not yielded
ws_stream_chunk ==
    /\ pc = "stream"
    /\ frags < MaxFragments
    /\ \E chunk \in {Fragment(frags + 1), <<>>} :
         IF chunk = <<>>
         THEN UNCHANGED <<segVars, appVars, wsVars, wsHist>>
         ELSE \/ /\ client = "open"
                 /\ full_response' = Accumulate(full_response, chunk)
                 /\ frags' = frags + 1
                 /\ log' = Append(log, ResponseChunk(chunk))
                 /\ UNCHANGED <<segVars, appVars, pc, client, replay_i,
                                current_student_text, last_pausing_time,
                                conversation_history, wake, wsHist>>
              \/ /\ SendRaises
                 /\ UNCHANGED <<conversation, disk>>
    /\ UNCHANGED <<envVars, segHist, otherVars>>

\* ollama_client.py:189-190 with the exception raised again after the fragment
StreamErrorAborts ==
    /\ pc = "stream"
    /\ \/ /\ client = "open"
          /\ full_response' = Accumulate(full_response, ErrorFragment)
          /\ log' = Append(log, ResponseChunk(ErrorFragment))
          /\ pc' = "except"
          /\ UNCHANGED <<segVars, appVars, client, replay_i, current_student_text,
                         last_pausing_time, conversation_history, frags, wake, wsHist>>
       \/ /\ SendRaises
          /\ UNCHANGED <<conversation, disk>>
    /\ UNCHANGED <<envVars, segHist, otherVars>>

\* ollama_client.py:189-190: the transport fails: one error fragment, the end
ws_stream_error ==
    /\ pc = "stream"
    /\ \/ /\ client = "open"
          /\ full_response' = Accumulate(full_response, ErrorFragment)
          /\ log' = Append(log, ResponseChunk(ErrorFragment))
          /\ pc' = "stream_done"
          /\ UNCHANGED <<segVars, appVars, client, replay_i, current_student_text,
                         last_pausing_time, conversation_history, frags, wake, wsHist>>
       \/ /\ SendRaises
          /\ UNCHANGED <<conversation, disk>>
    /\ UNCHANGED <<envVars, segHist, otherVars>>

\* lines 280-285: the stream has ended, ResponseComplete is sent
ws_stream_end ==
    /\ pc \in {"stream", "stream_done"}
    /\ \/ /\ client = "open"
          /\ log' = Append(log, ResponseComplete(full_response))
          /\ pc' = "bot"
          /\ UNCHANGED <<segVars, appVars, client, locals, wsHist>>
       \/ /\ SendRaises
          /\ UNCHANGED <<conversation, disk>>
    /\ UNCHANGED <<envVars, segHist, otherVars>>

\* lines 287-296: the bot turn is appended, Status(listening) is sent
ws_bot ==
    /\ pc = "bot"
    /\ add_message("bot", full_response)
    /\ \/ /\ client = "open"
          /\ log' = log \o <<Appended("bot", full_response), Status("listening")>>
          /\ current_student_text' = <<>>
          /\ last_pausing_time' = NoTime
          /\ Sleep
          /\ h_pause' = [h_pause EXCEPT !.reset = TRUE]
          /\ UNCHANGED <<segVars, session_active, whisper_stt, client, replay_i,
                         conversation_history, full_response, frags>>
          /\ UNCHANGED <<h_live, h_phrases, h_ticked, h_turns, h_capture, h_rejected,
                         h_threw, h_stopPushed, h_sendsFailed>>
       \/ SendRaisesAfter(<<Appended("bot", full_response)>>)
    /\ UNCHANGED <<envVars, segHist, otherVars>>

\* line 303: the text actually changed
TextNotEmpty == result.text # <<>>

\* line 303 without the test of text itself
TextDiffers == result.text # current_student_text

TextChanged == result.text # <<>> /\ result.text # current_student_text

\* lines 299-311: a live update; a new text is sent
ws_live ==
    /\ pc = "dispatch"
    /\ IsLiveUpdate(result)
    /\ \/ /\ ~TextChanged
          /\ Sleep
          /\ UNCHANGED <<segVars, appVars, client, replay_i, current_student_text,
                         last_pausing_time, conversation_history, full_response,
                         frags, log, wsHist>>
       \/ /\ TextChanged
          /\ client = "open"
          /\ current_student_text' = result.text
          /\ last_pausing_time' = NoTime
          /\ log' = Append(log, Transcription(result.text, FALSE))
          /\ h_live' = Append(h_live, [text |-> result.text, phrase |-> h_phrases])
          /\ pc' = "live_status"
          /\ h_pause' = [h_pause EXCEPT !.reset = TRUE]
          /\ UNCHANGED <<segVars, appVars, client, replay_i, conversation_history,
                         full_response, frags, wake>>
          /\ UNCHANGED <<h_phrases, h_ticked, h_turns, h_capture, h_rejected, h_threw, h_stopPushed, h_sendsFailed>>
       \/ /\ TextChanged
          /\ SendRaises
          /\ UNCHANGED <<conversation, disk>>
    /\ UNCHANGED <<envVars, segHist, otherVars>>

\* lines 312-316: Status(listening) after the live transcription
ws_live_status ==
    /\ pc = "live_status"
    /\ \/ /\ client = "open"
          /\ log' = Append(log, Status("listening"))
          /\ Sleep
          /\ UNCHANGED <<segVars, appVars, client, replay_i, current_student_text,
                         last_pausing_time, conversation_history, full_response,
                         frags, wsHist>>
       \/ /\ SendRaises
          /\ UNCHANGED <<conversation, disk>>
    /\ UNCHANGED <<envVars, segHist, otherVars>>

\* line 316: the sleep is over
ws_wake ==
    /\ pc = "sleeping"
    /\ clock >= wake
    /\ pc' = "tick"
    /\ wake' = 0
    /\ UNCHANGED <<envVars, segVars, segHist, otherVars, appVars, client, replay_i,
                   current_student_text, last_pausing_time, conversation_history,
                   full_response, frags, log, wsHist>>

\* ------------------------------------------------- one session, its clients
\* before start_session, or after it: the session active, the segmenter
\* built, the greeting appended and saved
InitApp ==
    \/ InitIdleApp
    \/ /\ session_active = TRUE
       /\ whisper_stt = TRUE
       /\ StartedSession
       /\ EssayUploaded

Init ==
    /\ clock = 0
    /\ pushed = 0
    /\ InitSegmenter
    /\ InitApp
    /\ InitNoHandler

Push == record_callback /\ UNCHANGED <<segHist, orchVars>>
Elapse == Advance /\ UNCHANGED <<segVars, segHist, orchVars>>

Next ==
    \/ Push
    \/ Elapse
    \/ ws_connect
    \/ client_disconnect
    \/ ws_reject
    \/ ws_close
    \/ ws_start
    \/ ws_unwind
    \/ ws_replay
    \/ ws_tick_begin
    \/ ws_tick_clear
    \/ ws_tick_live
    \/ ws_tick_final
    \/ ws_tick_raise
    \/ ws_except
    \/ ws_none
    \/ ws_pausing
    \/ ws_phrase_empty
    \/ ws_phrase_complete
    \/ ws_student
    \/ ws_history
    \/ ws_stream_chunk
    \/ ws_stream_error
    \/ ws_stream_end
    \/ ws_bot
    \/ ws_live
    \/ ws_live_status
    \/ ws_wake

Spec == Init /\ [][Next]_vars

\* ------------------------------------------- a second client connection
\* Both handlers are coroutines of one event loop: the second one runs while
\* the first is suspended in asyncio.sleep (line 316) or is not running.  One
\* iteration of the second handler's loop is taken as a single step.
Suspended == pc \in {"none", "done", "sleeping"} /\ seg_pc = "idle"

\* lines 180-199 for the second client: nothing tells the two handlers apart,
\* both get current_session["whisper_stt"]
peer_connect ==
    /\ Suspended
    /\ peer = "none"
    /\ session_active /\ whisper_stt
    /\ start_listening
    /\ peer' = "loop"
    /\ h_peerTicked' = FALSE
    /\ UNCHANGED <<envVars, segHist, appVars, wsVars, wsHist, storeVars, svcVars>>

\* lines 217-316 for the second client: process_audio_queue on the shared
\* segmenter, the result handled as in the first handler; the events go to
\* the second client
peer_tick ==
    /\ Suspended
    /\ peer = "loop"
    /\ h_peerTicked' = TRUE
    /\ IF data_queue # <<>>
       THEN /\ data_queue' = <<>>
            /\ phrase_time' = clock
            /\ phrase_bytes' = phrase_bytes \o Join(data_queue)
            /\ UNCHANGED <<conversation, disk>>
       ELSE IF phrase_time = NoTime \/ phrase_bytes = <<>>
       THEN UNCHANGED <<data_queue, phrase_time, phrase_bytes, conversation, disk>>
       ELSE IF TimedOut(clock)
       THEN /\ phrase_bytes' = <<>>
            /\ phrase_time' = NoTime
            /\ \E raw \in RawTexts, response \in {<<>>, Fragment(1), ErrorFragment} :
                   IF strip(raw) = <<>>
                   THEN UNCHANGED <<conversation, disk>>
                   ELSE /\ conversation' = conversation \o
                              <<Turn(clock, "student", strip(raw)),
                                Turn(clock, "bot", response)>>
                        /\ disk' = Saved(conversation')
            /\ UNCHANGED data_queue
       ELSE UNCHANGED <<data_queue, phrase_time, phrase_bytes, conversation, disk>>
    /\ UNCHANGED <<is_running, listeners, phrase_timeout, seg_pc, now, audio_data,
                   result>>
    /\ UNCHANGED <<envVars, segHist, session_active, whisper_stt, wsVars, wsHist, peer,
                   storeVars, svcVars>>

\* lines 318-326 for the second client
peer_disconnect ==
    /\ Suspended
    /\ peer = "loop"
    /\ stop_listening
    /\ peer' = "none"
    /\ UNCHANGED <<envVars, segHist, appVars, wsVars, wsHist, h_peerTicked, storeVars,
                   svcVars>>

NextTwoClients ==
    \/ Next
    \/ peer_connect
    \/ peer_tick
    \/ peer_disconnect

SpecTwoClients == Init /\ [][NextTwoClients]_vars

\* --------------------------------------------- the conversation manager
\* ConversationManager.start_session; `pdf_metadata or {}` makes None the
\* empty dict
start_session(ctx, meta) ==
    /\ session_id' = SessionIdAt(clock)
    /\ pdf_context' = ctx
    /\ pdf_metadata' = meta
    /\ conversation' = <<>>
    /\ UNCHANGED disk

\* ConversationManager.save_session returns
save_session ==
    /\ session_id # NoId
    /\ Serializable(pdf_metadata)
    /\ disk' = Saved(conversation)
    /\ UNCHANGED <<session_id, pdf_context, pdf_metadata, conversation>>

\* ConversationManager.load_session with data.get('pdf_metadata', {}) always
\* taking its default
LoadWithoutMetadata(id) ==
    /\ IF disk[id].state = "json"
       THEN /\ session_id' = disk[id].session_id
            /\ pdf_context' = disk[id].pdf_context.v
            /\ pdf_metadata' = EmptyDict
            /\ conversation' = LoadedTurns(disk[id])
       ELSE UNCHANGED <<session_id, pdf_context, pdf_metadata, conversation>>
    /\ UNCHANGED disk

\* ConversationManager.load_session: False when the file is missing or is not
\* a JSON document, else the fields are set from the document
load_session(id) ==
    /\ IF disk[id].state = "json"
       THEN /\ session_id' = disk[id].session_id
            /\ pdf_context' = disk[id].pdf_context.v
            /\ pdf_metadata' = json_load_dict(disk[id].pdf_metadata)
            /\ conversation' = LoadedTurns(disk[id])
       ELSE UNCHANGED <<session_id, pdf_context, pdf_metadata, conversation>>
    /\ UNCHANGED disk

\* ConversationManager.list_sessions: the files of the storage directory in
\* descending name order, one summary for each that parses as JSON
RECURSIVE SummariesFrom(_)
SummariesFrom(id) ==
    IF id < 0 THEN <<>>
    ELSE (IF disk[id].state = "json"
          THEN <<[session_id |-> disk[id].session_id,
                  message_count |-> disk[id].message_count,
                  pdf_title |-> IF "title" \in DOMAIN disk[id].pdf_metadata
                                THEN disk[id].pdf_metadata["title"].v
                                ELSE "Unknown"]>>
          ELSE <<>>) \o SummariesFrom(id - 1)
list_sessions == SummariesFrom(SessionIdAt(MaxStoreTime))

\* what the manager does not touch
notStore == <<pushed, segVars, segHist, session_active, whisper_stt, wsVars, wsHist,
              peerVars, svcVars>>
StoreSpeakers == {"student", "bot"}
StoreText == <<"hello">>

StoreStart ==
    /\ Len(h_started) < MaxSessions
    /\ \E ctx \in Contexts, meta \in MetaDicts : start_session(ctx, meta)
    /\ h_loaded' = NoId
    /\ h_returned' = FALSE
    /\ h_started' = Append(Released(h_started), Started(session_id', FALSE, TRUE))
    /\ UNCHANGED <<clock, notStore, h_saved>>

StoreAdd ==
    /\ Len(conversation) < MaxTurns
    /\ \E speaker \in StoreSpeakers : add_message(speaker, StoreText)
    /\ h_saved' = [h_saved EXCEPT ![session_id] =
                      Snapshot(TRUE, conversation', pdf_context, pdf_metadata)]
    /\ h_loaded' = NoId
    /\ h_returned' = TRUE
    /\ h_started' = MarkSaved(h_started)
    /\ UNCHANGED <<clock, notStore, session_id, pdf_context, pdf_metadata>>

StoreAddRaises ==
    /\ Len(conversation) < MaxTurns
    /\ \E speaker \in StoreSpeakers : add_message_raises(speaker, StoreText)
    /\ h_saved' = IF disk' = disk THEN h_saved
                  ELSE [h_saved EXCEPT ![session_id] = NoSnapshot]
    /\ h_loaded' = NoId
    /\ h_returned' = FALSE
    /\ UNCHANGED <<clock, notStore, session_id, pdf_context, pdf_metadata, h_started>>

\* app.py:339
StoreSave ==
    /\ save_session
    /\ h_saved' = [h_saved EXCEPT ![session_id] =
                      Snapshot(TRUE, conversation, pdf_context, pdf_metadata)]
    /\ h_loaded' = NoId
    /\ h_started' = MarkSaved(h_started)
    /\ UNCHANGED <<clock, notStore, h_returned>>

\* app.py:373
StoreLoad ==
    /\ \E id \in SessionIds :
           /\ load_session(id)
           /\ h_loaded' = IF disk[id].state = "json" THEN id ELSE NoId
           /\ h_returned' = (h_returned /\ disk[id].state # "json")
           /\ h_started' = IF disk[id].state = "json" THEN Released(h_started)
                           ELSE h_started
    /\ UNCHANGED <<clock, notStore, h_saved>>

\* a second passes
StoreElapse ==
    /\ clock + UnitsPerSecond <= MaxStoreTime
    /\ clock' = clock + UnitsPerSecond
    /\ UNCHANGED <<notStore, appVars, storeVars>>

NextStore ==
    \/ StoreStart
    \/ StoreAdd
    \/ StoreAddRaises
    \/ StoreSave
    \/ StoreLoad
    \/ StoreElapse

InitStore ==
    /\ clock = 0
    /\ pushed = 0
    /\ NewWhisperSTT(MaxPhraseTimeout)
    /\ InitIdleApp
    /\ InitNoHandler

SpecStore == InitStore /\ [][NextStore]_vars

\* --------------------------------------------------- the HTTP endpoints
\* an endpoint runs while the handler is suspended at an await; what it
\* leaves alone
svcRest == <<envVars, wsVars, wsHist, peerVars, h_last_n>>
\* no handler runs
Quiet == pc \in {"none", "done"} /\ seg_pc = "idle"
\* extract_first_n_words: the words of the document, none for a document
\* without a text layer
Uploads == {<<>>, Essay}

\* app.py:75-110 upload_pdf returns
post_upload_pdf ==
    /\ Quiet
    /\ \E ctx \in Uploads : uploaded_context' = ctx
    /\ pdf_uploaded' = TRUE
    /\ h_reply' = "200"
    /\ UNCHANGED <<segVars, segHist, appVars, storeVars, h_ended, svcRest>>

\* app.py:131-132 start_session raises HTTPException(400)
post_start_session_refused ==
    /\ Quiet
    /\ ~pdf_uploaded
    /\ h_reply' = "400"
    /\ UNCHANGED <<segVars, segHist, appVars, storeVars, pdf_uploaded, uploaded_context,
                   h_ended, svcRest>>

\* app.py:134-168 start_session returns: the manager starts a session on
\* the uploaded context, the greeting is appended and saved, a new WhisperSTT
\* replaces the old one (taken when no handler holds the old one)
post_start_session ==
    /\ Quiet
    /\ pdf_uploaded
    /\ Len(h_started) < MaxSessions
    /\ session_id' = SessionIdAt(clock)
    /\ pdf_context' = uploaded_context
    /\ pdf_metadata' = PdfMetadata
    /\ conversation' = <<Turn(clock, "bot", Greeting)>>
    /\ disk' = [disk EXCEPT ![session_id'] =
                   SessionData(session_id', pdf_context', pdf_metadata', conversation')]
    /\ \E timeout \in 2..MaxPhraseTimeout : phrase_timeout' = timeout
    /\ data_queue' = <<>>
    /\ phrase_bytes' = <<>>
    /\ phrase_time' = NoTime
    /\ is_running' = FALSE
    /\ listeners' = 0
    /\ seg_pc' = "idle"
    /\ now' = NoTime
    /\ audio_data' = <<>>
    /\ result' = NoneResult
    /\ h_lastArrival' = NoTime
    /\ h_gapsOK' = TRUE
    /\ h_lastAudioTick' = NoTime
    /\ h_completions' = 0
    /\ h_pauseThenAudio' = FALSE
    /\ h_transcribed' = <<>>
    /\ whisper_stt' = TRUE
    /\ session_active' = TRUE
    /\ h_saved' = [h_saved EXCEPT ![session_id'] =
                      Snapshot(TRUE, conversation', pdf_context', pdf_metadata')]
    /\ h_loaded' = NoId
    /\ h_returned' = TRUE
    /\ h_started' = Append(Released(h_started), Started(session_id', TRUE, TRUE))
    /\ h_ended' = FALSE
    /\ h_reply' = "200"
    /\ UNCHANGED <<pdf_uploaded, uploaded_context, svcRest>>

\* app.py:334-335 end_session raises HTTPException(400)
post_end_session_refused ==
    /\ Quiet
    /\ ~session_active
    /\ h_reply' = "400"
    /\ UNCHANGED <<segVars, segHist, appVars, storeVars, pdf_uploaded, uploaded_context,
                   h_ended, svcRest>>

\* app.py:337-357 end_session returns: the session is saved, capture is
\* stopped, current_session forgets the segmenter and the session is inactive
post_end_session ==
    /\ Suspended
    /\ session_active
    /\ save_session
    /\ IF whisper_stt THEN stop_listening ELSE UNCHANGED segVars
    /\ whisper_stt' = FALSE
    /\ session_active' = FALSE
    /\ h_started' = MarkSaved(h_started)
    /\ h_ended' = TRUE
    /\ h_reply' = "200"
    /\ UNCHANGED <<segHist, h_saved, h_loaded, h_returned, pdf_uploaded, uploaded_context,
                   svcRest>>

\* the endpoints with no client connected
NextService ==
    \/ Elapse
    \/ post_upload_pdf
    \/ post_start_session_refused
    \/ post_start_session
    \/ post_end_session_refused
    \/ post_end_session

\* the server has just started: nothing uploaded, no session, no connection
InitService ==
    /\ clock = 0
    /\ pushed = 0
    /\ NewWhisperSTT(MaxPhraseTimeout)
    /\ InitIdleApp
    /\ InitNoHandler

SpecService == InitService /\ [][NextService]_vars

\* a session with its client, ended by the endpoint at any await of the handler
NextEnd ==
    \/ Next
    \/ post_end_session

SpecEnd == Init /\ [][NextEnd]_vars

\* ------------------------------------------------- the recent history
\* a session whose record grows, and callers that ask for its last turns

histRest == <<pushed, segVars, segHist, session_active, whisper_stt, wsHist, peerVars,
              storeVars, pdf_uploaded, uploaded_context, h_ended, h_reply,
              pc, client, replay_i, current_student_text, last_pausing_time,
              full_response, frags, wake, log>>

\* a turn is appended
HistAdd ==
    /\ Len(conversation) <= MaxTurns
    /\ \E speaker \in StoreSpeakers : add_message(speaker, StoreText)
    /\ UNCHANGED <<clock, conversation_history, h_last_n, histRest>>

\* app.py:259 with any last_n: get_conversation_history(last_n=n) returns
HistRecent ==
    /\ \E n \in 0..MaxLastN :
           /\ h_last_n' = n
           /\ conversation_history' = get_conversation_history(n)
    /\ UNCHANGED <<clock, conversation, disk, histRest>>

HistElapse ==
    /\ clock < MaxTime
    /\ clock' = clock + 1
    /\ UNCHANGED <<conversation, disk, conversation_history, h_last_n, histRest>>

NextHistory ==
    \/ HistAdd
    \/ HistRecent
    \/ HistElapse

InitHistory ==
    /\ clock = 0
    /\ pushed = 0
    /\ NewWhisperSTT(MaxPhraseTimeout)
    /\ session_active = TRUE
    /\ whisper_stt = TRUE
    /\ StartedSession
    /\ EssayUploaded
    /\ InitNoHandler

SpecHistory == InitHistory /\ [][NextHistory]_vars

\* ----------------------------------------- one phrase, from audio to answer
\* a session started with the default phrase_timeout of 5 s (app.py:27); the
\* microphone delivers one chunk at 0 s and one at 1 s, in which the ASR
\* model hears "hello" and then "hello world"; the client stays connected
DefaultPhraseTimeout == 5 * UnitsPerSecond

ChunkTimes == <<0, UnitsPerSecond>>

Hello == <<"hello">>
HelloWorld == <<"hello", " ", "world">>

Heard(bytes) == IF Len(bytes) <= 1 THEN <<" ", "hello">> ELSE <<" ", "hello", " ", "world">>

ChunkDue == pushed < Len(ChunkTimes) /\ clock >= ChunkTimes[pushed + 1]

InitE2E ==
    /\ clock = 0
    /\ pushed = 0
    /\ NewWhisperSTT(DefaultPhraseTimeout)
    /\ session_active = TRUE
    /\ whisper_stt = TRUE
    /\ StartedSession
    /\ EssayUploaded
    /\ InitNoHandler

E2EChunk ==
    /\ ChunkDue
    /\ record_callback
    /\ data_queue' = Append(data_queue, <<pushed + 1>>)
    /\ UNCHANGED <<segHist, orchVars>>

E2EElapse ==
    /\ pc # "none"
    /\ ~ChunkDue
    /\ AdvanceTo(MaxScenarioTime)
    /\ UNCHANGED <<segVars, segHist, orchVars>>

E2ELive == ws_tick_live /\ result'.text = strip(Heard(phrase_bytes))
E2EFinal == ws_tick_final /\ result'.text = strip(Heard(phrase_bytes))

NextE2E ==
    \/ E2EChunk
    \/ E2EElapse
    \/ ws_connect
    \/ ws_start
    \/ ws_replay
    \/ ws_tick_begin
    \/ ws_tick_clear
    \/ E2ELive
    \/ E2EFinal
    \/ ws_none
    \/ ws_pausing
    \/ ws_phrase_complete
    \/ ws_student
    \/ ws_history
    \/ ws_stream_chunk
    \/ ws_stream_error
    \/ ws_stream_end
    \/ ws_bot
    \/ ws_live
    \/ ws_live_status
    \/ ws_wake

SpecE2E == InitE2E /\ [][NextE2E]_vars

\* ------------------------------------------------------------- claims
\* C1: while chunks arrive with every gap strictly below the pause timeout
\* (all gaps so far were, and less than the timeout has passed since the
\* last arrival), no tick returns PhraseComplete and the length of
\* phrase_bytes never decreases, whatever the interleaving of ticks.
AudioFlowing(t) == h_gapsOK /\ t - h_lastArrival < phrase_timeout

C1_NoCompleteWhileFlowing ==
    /\ [](IsPhraseComplete(result) => ~AudioFlowing(result.timestamp))
    /\ [][Len(phrase_bytes') < Len(phrase_bytes)
            => ~(h_gapsOK' /\ result'.timestamp - h_lastArrival' < phrase_timeout)]_vars

C1_Witness ==
    /\ h_gapsOK
    /\ IsLiveUpdate(result)
    /\ result.timestamp > phrase_timeout
    /\ Len(phrase_bytes) >= 2

\* C2: once the pause timeout has passed with a non-empty buffer and no new
\* audio, PhraseComplete is returned exactly once for the phrase, with
\* phrase_bytes and phrase_time cleared, and every tick after it returns
\* None until new audio is drained; with fair ticks and a returning ASR call
\* the PhraseComplete is eventually returned.
Silent ==
    /\ phrase_bytes # <<>>
    /\ phrase_time # NoTime
    /\ data_queue = <<>>
    /\ pushed = MaxChunks
    /\ seg_pc # "clear"
    /\ phrase_time + phrase_timeout <= MaxTime

C2_CompleteOnceThenIdle ==
    /\ [](IsPhraseComplete(result) => phrase_bytes = <<>> /\ phrase_time = NoTime)
    /\ [](h_completions <= 1)
    /\ [](h_completions = 1 =>
            \/ IsPhraseComplete(result)
            \/ result = NoneResult
            \/ result = Running /\ seg_pc = "clear")
    /\ (Silent ~> IsPhraseComplete(result))

C2_Witness ==
    /\ h_completions = 1
    /\ result = NoneResult
    /\ clock > h_lastAudioTick + phrase_timeout

\* C3: new audio fully resets the countdown: with t the time of the latest
\* tick that found new audio, PhraseComplete is returned only by a tick at
\* t + phrase_timeout or later, and a Pausing result carries the remaining
\* time measured from t.
C3_AudioResetsCountdown ==
    /\ IsPhraseComplete(result) => result.timestamp >= h_lastAudioTick + phrase_timeout
    /\ IsPausing(result) =>
           result.time_remaining = phrase_timeout - (result.timestamp - h_lastAudioTick)

C3_Witness ==
    /\ h_pauseThenAudio
    /\ IsPausing(result)
    /\ result.time_remaining < phrase_timeout

\* ------------------------------------------- reading the log of an iteration
IsPrefix(a, b) == Len(a) <= Len(b) /\ a = SubSeq(b, 1, Len(a))

OfType(events, type) == SelectSeq(events, LAMBDA e : e.type = type)
AppendsOf(events, speaker) ==
    SelectSeq(events, LAMBDA e : e.type = "append" /\ e.status = speaker)

RECURSIVE ConcatTexts(_)
ConcatTexts(events) ==
    IF events = <<>> THEN <<>> ELSE Head(events).text \o ConcatTexts(Tail(events))

\* the loop is handling the result of its latest tick, or has handled it
Handling == pc \in {"dispatch", "student", "history", "stream", "stream_done", "bot",
                    "live_status", "sleeping", "tick", "done"}
InResponse == pc \in {"student", "history", "stream", "stream_done", "bot"}

\* C4: a PhraseComplete whose text is empty or whitespace-only appends no
\* turn and opens no LLM stream: the only event of that iteration is
\* Status(listening), and the loop goes on to the next tick.
C4_EmptyPhraseDiscarded ==
    (h_ticked /\ IsPhraseComplete(result) /\ strip(result.text) = <<>>) =>
        /\ IsPrefix(log, <<Status("listening")>>)
        /\ Len(conversation) = h_turns
        /\ ~InResponse
        /\ pc \in {"dispatch", "tick", "done"}

C4_Witness ==
    /\ IsPhraseComplete(result)
    /\ strip(result.text) = <<>>
    /\ pc = "tick"
    /\ log = <<Status("listening")>>

\* C5 as claimed: on one connection, every Transcription(complete=false)
\* event differs in text from the Transcription(complete=false) event
\* emitted before it.
C5_LiveDiffersOnConnection ==
    \A i \in 2..Len(h_live) : h_live[i].text # h_live[i - 1].text

\* C5 as amended: a Transcription(complete=false) event differs in text from
\* the one emitted before it for the same phrase (since the last
\* PhraseComplete of the connection); a LiveUpdate whose text equals the
\* last live text emitted for its phrase produces no event at all, and one
\* that is forwarded produces the transcription before anything else.
C5_LiveDiffersWithinPhrase ==
    /\ \A i \in 2..Len(h_live) :
           h_live[i].phrase = h_live[i - 1].phrase => h_live[i].text # h_live[i - 1].text
    /\ (h_ticked /\ IsLiveUpdate(result) /\ Handling) =>
           \/ log = <<>>
           \/ /\ IsPrefix(log, <<Transcription(result.text, FALSE), Status("listening")>>)
              /\ h_live # <<>>
              /\ h_live[Len(h_live)] = [text |-> result.text, phrase |-> h_phrases]

C5_Witness ==
    /\ IsLiveUpdate(result)
    /\ pc = "sleeping"
    /\ log = <<>>
    /\ h_live # <<>>
    /\ h_live[Len(h_live)] = [text |-> result.text, phrase |-> h_phrases]

\* C6: once ResponseComplete is sent, its text is the concatenation, in
\* emission order, of the ResponseChunk events sent before it in that turn,
\* and the bot turn appended after it carries that same text.
C6_ChunksMakeResponse ==
    LET completes == OfType(log, "bot_response_complete")
        bots == AppendsOf(log, "bot")
    IN  /\ Len(completes) <= 1
        /\ Len(bots) <= 1
        /\ completes # <<>> =>
               completes[1].text = ConcatTexts(OfType(log, "bot_response_chunk"))
        /\ bots # <<>> =>
               /\ completes # <<>>
               /\ bots[1].text = completes[1].text
               /\ Len(conversation) = h_turns + 2
               /\ conversation[Len(conversation)].speaker = "bot"
               /\ conversation[Len(conversation)].text = completes[1].text

C6_Witness ==
    /\ pc = "sleeping"
    /\ AppendsOf(log, "bot") # <<>>
    /\ Len(OfType(log, "bot_response_chunk")) >= 2

\* C7: for a PhraseComplete with non-empty text the events and appends of
\* the iteration come in exactly this order: Transcription(text, complete),
\* student turn appended, Status(analyzing), Status(responding), zero or
\* more ResponseChunk, ResponseComplete, bot turn appended (and saved),
\* Status(listening); nothing else is sent and the segmenter is not ticked
\* in between.
Step(e) ==
    CASE e.type = "transcription" /\ e.phrase_complete -> 1
      [] e.type = "append" /\ e.status = "student" -> 2
      [] e.type = "status" /\ e.status = "analyzing" -> 3
      [] e.type = "status" /\ e.status = "responding" -> 4
      [] e.type = "bot_response_chunk" -> 5
      [] e.type = "bot_response_complete" -> 6
      [] e.type = "append" /\ e.status = "bot" -> 7
      [] e.type = "status" /\ e.status = "listening" -> 8
      [] OTHER -> 0

InOrder(events) ==
    /\ events # <<>> => Step(events[1]) = 1
    /\ \A i \in 1..Len(events) : Step(events[i]) # 0
    /\ \A i \in 2..Len(events) :
           \/ Step(events[i]) = Step(events[i - 1]) + 1
           \/ Step(events[i - 1]) = 5 /\ Step(events[i]) = 5
           \/ Step(events[i - 1]) = 4 /\ Step(events[i]) = 6

C7_ResponseOrder ==
    (h_ticked /\ IsPhraseComplete(result) /\ strip(result.text) # <<>>) =>
        /\ InOrder(log)
        /\ log # <<>> => log[1] = Transcription(result.text, TRUE)
        /\ Len(log) >= 2 => log[2] = Appended("student", result.text)
        /\ InResponse => seg_pc = "idle"
        /\ AppendsOf(log, "student") # <<>> => Len(conversation) >= h_turns + 1
        /\ AppendsOf(log, "bot") # <<>> => Persisted = conversation
        /\ pc \in {"sleeping", "tick"} => Step(log[Len(log)]) = 8

C7_Witness ==
    /\ IsPhraseComplete(result)
    /\ pc = "sleeping"
    /\ Len(log) >= 8
    /\ log[Len(log)] = Status("listening")

\* C8 as claimed: in the scenario (timeout 5 s, chunks at 0 s and 1 s heard
\* as "hello" and "hello world", the second taken by a tick at 1 s) the ticks
\* at 2, 3 and 4 s return Pausing with about 3, 2 and 1 s remaining (within
\* half a second), the phrase completes as "hello world" at 6 s or later, and
\* then one student turn and, after the stream, one bot turn are appended.
AtSecond(t) == t * UnitsPerSecond

SecondChunkTakenAtOne == Len(phrase_bytes) = 2 /\ phrase_time = AtSecond(1)

\* the Pausing results at 2, 3, 4 s count down to the second k, within tol
PausingCountsDownTo(k, tol) ==
    \A t \in 2..4 :
        (IsPausing(result) /\ SecondChunkTakenAtOne /\ result.timestamp = AtSecond(t)) =>
            result.time_remaining - AtSecond(k - t) \in (0 - tol)..tol

\* both live updates of the scenario were sent: "hello", then "hello world"
BothLiveUpdatesSent ==
    /\ Len(h_live) = 2
    /\ h_live[1].text = Hello
    /\ h_live[2].text = HelloWorld

ScenarioResults ==
    /\ IsLiveUpdate(result) =>
           result.text = (IF Len(phrase_bytes) = 1 THEN Hello ELSE HelloWorld)
    /\ IsPhraseComplete(result) => result.timestamp >= AtSecond(6)
    /\ (IsPhraseComplete(result) /\ BothLiveUpdatesSent) => result.text = HelloWorld

ScenarioTurns ==
    /\ h_phrases <= 1
    /\ (h_phrases = 0 \/ pc = "student") => conversation = <<Turn(0, "bot", Greeting)>>
    /\ (h_phrases = 1 /\ pc \in {"history", "stream", "stream_done", "bot"}) =>
           /\ Len(conversation) = 2
           /\ conversation[2].speaker = "student"
           /\ BothLiveUpdatesSent => conversation[2].text = HelloWorld
    /\ (h_phrases = 1 /\ pc \in {"sleeping", "tick", "dispatch", "in_tick"}) =>
           /\ Len(conversation) = 3
           /\ conversation[2].speaker = "student"
           /\ BothLiveUpdatesSent => conversation[2].text = HelloWorld
           /\ conversation[3].speaker = "bot"

C8_ScenarioAsClaimed ==
    /\ PausingCountsDownTo(5, 2)
    /\ ScenarioResults
    /\ ScenarioTurns

\* C8 as amended: the same scenario, but the ticks at 2, 3 and 4 s return
\* Pausing with exactly 4, 3 and 2 s remaining: the countdown runs from the
\* tick at 1 s that took the second chunk and ends at 6 s.
C8_ScenarioAmended ==
    /\ PausingCountsDownTo(6, 0)
    /\ ScenarioResults
    /\ ScenarioTurns

C8_Witness ==
    /\ IsPhraseComplete(result)
    /\ result.timestamp = AtSecond(6)
    /\ pc = "sleeping"
    /\ Len(conversation) = 3
    /\ h_pause.prev = AtSecond(3)
    /\ h_pause.last = AtSecond(4)
    /\ BothLiveUpdatesSent

\* C9: on one connection two Status(pausing) events are at least 500 ms
\* apart, also when a live update or a completed phrase reset the throttle
\* timestamp between them.
C9_PausingThrottled ==
    h_pause.prev # NoTime => h_pause.last - h_pause.prev >= PausingThrottle

C9_Witness ==
    /\ h_pause.prev # NoTime
    /\ h_pause.reset_between
    /\ h_pause.last - h_pause.prev = PausingThrottle

\* C10: a connection made while there is no active session or no segmenter
\* is sent an error message and closed (if the client is still there to
\* receive it); capture is never started, Ready is never sent, the
\* segmenter is never ticked and no turn is appended.
C10_RejectedConnection ==
    h_rejected =>
        /\ ~h_capture
        /\ ~h_ticked
        /\ ~is_running
        /\ Len(conversation) = h_turns
        /\ IsPrefix(log, <<RejectError, Closed>>)
        /\ pc \in {"closing", "done"}
        /\ (pc = "done" /\ ~h_threw) => (log = <<RejectError, Closed>> /\ client = "closed")

C10_Witness ==
    /\ h_rejected
    /\ pc = "done"
    /\ log = <<RejectError, Closed>>

\* ------------------------------------------------------------------ C11
\* lines 203-208: the event one turn of the record is replayed as
ReplayEvent(msg) ==
    IF msg.speaker = "bot" THEN BotResponse(msg.text) ELSE Transcription(msg.text, TRUE)

ReplayOf(turns) == [i \in 1..Len(turns) |-> ReplayEvent(turns[i])]

\* between start_listening and the first tick of an accepted connection
Connecting == h_capture /\ ~h_rejected /\ ~h_ticked /\ pc \in {"replay", "tick"}

\* C11: on a successful connect capture is started, then Ready is the first
\* event, then one event per turn of the record follows in append order, and
\* the segmenter is first ticked only when the whole record has been replayed
C11_ConnectSequence ==
    Connecting =>
        /\ is_running /\ listeners > 0
        /\ log # <<>> /\ log[1] = Ready
        /\ IsPrefix(log, <<Ready>> \o ReplayOf(conversation))
        /\ pc = "replay" => Len(log) = replay_i
        /\ pc = "tick" => log = <<Ready>> \o ReplayOf(conversation)

\* a reconnecting client is replayed a record of three turns and the loop is
\* about to tick for the first time
C11_Witness ==
    /\ Connecting
    /\ pc = "tick"
    /\ Len(conversation) >= 3
    /\ log = <<Ready>> \o ReplayOf(conversation)

\* ------------------------------------------------------------------ C12
\* the handler of an accepted connection has ended: the finally block ran
Exited == pc = "done" /\ h_capture /\ ~h_rejected

\* C12: after the orchestrator has exited, having started capture, the capture
\* unit pushes no further chunk: the queue has received exactly the chunks it
\* had received when stop_listening returned
C12_NoPushAfterStop == Exited => pushed = h_stopPushed

\* ------------------------------------------------------------------ C13
\* C13: the orchestrator never propagates an exception to its caller: when the
\* handler has ended after an internal error (here the ASR call of a segmenter
\* tick raised), it has ended normally, also when the client channel was
\* already closed at the time of the error
C13_ErrorNeverPropagates == (Exited /\ result.kind = "raised") => ~h_threw

\* ------------------------------------------------------------------ C14
\* C14: once the orchestrator has observed the disconnect (a send failed on
\* the closed channel) it attempts no further send on that channel: a handler
\* that has ended has seen at most one of its sends fail
C14_NoSendAfterDisconnect == Exited => h_sendsFailed <= 1

\* ------------------------------------------------------------------ C15
\* C15: under every interleaving of the capture thread's push with the drain
\* of a tick no chunk is lost and none is appended twice: when the tick
\* empties the queue, the chunks the queue holds at that moment are appended
\* to the phrase buffer, once and in the order they were pushed
C15_DrainKeepsEveryChunk ==
    [][(seg_pc = "clear" /\ seg_pc' # "clear")
          => /\ phrase_bytes' = phrase_bytes \o Join(data_queue)
             /\ data_queue' = <<>>]_vars

\* ------------------------------------------------------------------ C16
\* the first handler is inside its loop
Looping == h_ticked /\ pc \notin {"none", "done"}

\* C16: at any time at most one orchestrator loop ticks a given segmenter:
\* never have two connected handlers both called process_audio_queue on it
C16_OneLoopPerSegmenter == ~(Looping /\ peer = "loop" /\ h_peerTicked)

\* ------------------------------------------------------------------ C17
\* the fragments sent in this iteration
ChunksSent == OfType(log, "bot_response_chunk")

\* the LLM transport failed during the stream of this iteration
StreamFailed ==
    \E i \in 1..Len(ChunksSent) : ChunksSent[i] = ResponseChunk(ErrorFragment)

\* C17: a transport failure of the LLM stream does not abort the fragment
\* sequence: the sequence ends with exactly one error fragment, which is its
\* last fragment, and unless the client has left the handler goes on: it
\* sends ResponseComplete, appends a bot turn whose text is the fragments
\* received followed by the error fragment, sends Status(listening) and is
\* back at the sleep before its next tick
C17_StreamFailureContained ==
    StreamFailed =>
        /\ ChunksSent[Len(ChunksSent)] = ResponseChunk(ErrorFragment)
        /\ \A i \in 1..(Len(ChunksSent) - 1) : ChunksSent[i] # ResponseChunk(ErrorFragment)
        /\ h_sendsFailed = 0 => pc \in {"stream_done", "bot", "sleeping", "tick"}
        /\ pc \in {"sleeping", "tick"} =>
               /\ SubSeq(log, Len(log) - 2, Len(log)) =
                      << ResponseComplete(ConcatTexts(ChunksSent)),
                         Appended("bot", ConcatTexts(ChunksSent)),
                         Status("listening") >>
               /\ conversation[Len(conversation)].speaker = "bot"
               /\ conversation[Len(conversation)].text = ConcatTexts(ChunksSent)
               /\ Len(conversation) = h_turns + 2

\* the stream failed after one fragment and the loop is about to tick again
C17_Witness ==
    /\ StreamFailed
    /\ Len(ChunksSent) = 2
    /\ ConcatTexts(ChunksSent) = Fragment(1) \o ErrorFragment
    /\ pc = "tick"
    /\ client = "open"

\* ------------------------------------------------------------------ C18
\* the ASR call of the latest tick raised and the client was sent the error event
AsrFailureReported == result.kind = "raised" /\ OfType(log, "error") # <<>>

\* C18: a transient backend failure leaves the session alive: after the ASR
\* call raised inside a tick and the client received the error event, the
\* handler is still in its loop, to tick the segmenter again
C18_AsrFailureKeepsLoop == AsrFailureReported => pc # "done"

\* ------------------------------------------------------------------ C19
\* C19: persistence is synchronous on append: when add_message has returned,
\* the file of the current session is a whole document that holds exactly the
\* in-memory turn sequence, the same turns in the same order
C19_SavedOnAppend ==
    h_returned =>
        /\ session_id \in SessionIds
        /\ disk[session_id].state = "json"
        /\ disk[session_id].session_id = session_id
        /\ disk[session_id].message_count = Len(conversation)
        /\ LoadedTurns(disk[session_id]) = conversation

\* two turns of different speakers were appended and add_message has returned
C19_Witness ==
    /\ h_returned
    /\ Len(conversation) >= 2
    /\ conversation[1].speaker # conversation[2].speaker
    /\ LoadedTurns(disk[session_id]) = conversation

\* ------------------------------------------------------------------ C20
\* C20: saving a session and then loading it by its id yields the same
\* session: after load_session(id) has succeeded the manager holds the ordered
\* turn sequence, the essay context and the essay metadata (equal as Python
\* values) that the session had when it was last saved under that id
C20_SaveLoadRoundTrip ==
    h_loaded # NoId =>
        /\ h_saved[h_loaded].saved
        /\ session_id = h_loaded
        /\ conversation = h_saved[h_loaded].conversation
        /\ pdf_context = h_saved[h_loaded].pdf_context
        /\ DictEquals(pdf_metadata, h_saved[h_loaded].pdf_metadata)

\* a session of two turns with PDF metadata was saved and loaded again: the
\* title, a PyPDF2 text string when saved, is a plain str after the load
C20_Witness ==
    /\ h_loaded # NoId
    /\ Len(conversation) >= 2
    /\ pdf_context = Essay
    /\ "title" \in DOMAIN pdf_metadata
    /\ pdf_metadata["title"].cls = "str"
    /\ h_saved[h_loaded].pdf_metadata["title"].cls = "TextStringObject"

\* ---------------------------------------------------------------------------
\* C21: after N sessions have been started and saved, list_sessions returns
\* exactly N summaries, one per session, most recently started first, also
\* when sessions are started in quick succession.  Stated for a storage
\* directory in which every write finished, so that no file is unreadable.
SavedSessions == SelectSeq(h_started, LAMBDA s : s.saved)
EveryWriteFinished == \A id \in SessionIds : disk[id].state # "partial"
C21_ListsEverySession ==
    EveryWriteFinished =>
        /\ Len(list_sessions) = Len(SavedSessions)
        /\ \A i \in 1..Len(list_sessions) :
               list_sessions[i].session_id = SavedSessions[Len(SavedSessions) + 1 - i].id

\* ---------------------------------------------------------------------------
\* C22: between startSession and endSession the turn sequence of the session
\* is append-only under any interleaving of the appends with the other
\* service operations (fetching a saved session by id): every step that is
\* not a session start leaves the earlier sequence a prefix of the later one.
\* Stated for a session whose every turn has been saved.
SessionOpen == h_started # <<>> /\ session_id # NoId
C22_TurnsAppendOnly ==
    [][(/\ SessionOpen
        /\ Len(h_started') = Len(h_started)
        /\ Persisted = conversation)
       => IsPrefix(conversation, conversation')]_vars

\* ---------------------------------------------------------------------------
\* C23: after endSession has returned the session is persisted, inactive and
\* terminated: no further turn is appended to its record and the segmenter is
\* not ticked again, even if a handler loop was running when it was called.
TickStarts == pc = "tick" /\ pc' \in {"dispatch", "in_tick"}
C23_EndTerminates ==
    [][h_ended =>
          /\ ~session_active
          /\ Persisted = conversation
          /\ conversation' = conversation
          /\ ~TickStarts]_vars

\* ---------------------------------------------------------------------------
\* C24: invalid state is rejected at the boundary.  While no document is
\* uploaded, and while the uploaded essay context is empty, no step creates a
\* session, initializes a segmenter or makes the session active; and with no
\* active session a step that starts none (a refused endSession among them)
\* changes nothing of the session, the storage and the segmenter.
NothingToDiscuss == ~pdf_uploaded \/ uploaded_context = <<>>
C24_InvalidStateRejected ==
    [][/\ NothingToDiscuss =>
              /\ Len(h_started') = Len(h_started)
              /\ whisper_stt' => whisper_stt
              /\ session_active' => session_active
       /\ (~session_active /\ ~session_active') =>
              UNCHANGED <<session_id, conversation, disk, whisper_stt, segVars>>]_vars

\* ---------------------------------------------------------------------------
\* C25: get_conversation_history(last_n = n) returns, for every n >= 0 and
\* every conversation of length L, exactly the last min(n, L) turns in append
\* order; n = 0 returns no turns.
Min(a, b) == IF a <= b THEN a ELSE b
HistoryReturned == <<h_last_n, conversation_history>>' # <<h_last_n, conversation_history>>
C25_RecentHistory ==
    [][HistoryReturned =>
          conversation_history' =
              SubSeq(conversation, Len(conversation) - Min(h_last_n', Len(conversation)) + 1,
                     Len(conversation))]_vars

\* ---------------------------------------------------------------------------
\* C26: in every reachable segmenter state the phrase buffer is non-empty if
\* and only if the time of the last audio is set, for any sequence of ticks
\* and chunk arrivals, chunks of zero bytes included.
C26_BufferIffTimestamp == (phrase_bytes # <<>>) <=> (phrase_time # NoTime)

\* ---------------------------------------------------------------------------
\* C27: a tick that finds new audio takes the entire queue it finds, appends
\* the chunks taken to the phrase buffer in arrival order, leaves the queue
\* empty, sets the time of the last audio to the tick's now, gives the whole
\* accumulated buffer (not only the new chunks) to the ASR call and returns a
\* live update, however long ago the last audio was: it never returns a
\* complete phrase or a pausing status.  (An ASR call that raises returns
\* nothing.)
TickCalled == seg_pc = "idle" /\ <<seg_pc, result>>' # <<seg_pc, result>>
Elapsed(r) == r.timestamp - phrase_time
C28_PausingRemaining ==
    IsPausing(result) =>
        /\ phrase_time # NoTime
        /\ result.time_remaining = phrase_timeout - Elapsed(result)
        /\ result.time_remaining > 0
        /\ result.time_remaining <= phrase_timeout
        /\ Elapsed(result) < phrase_timeout

\* the last pausing result of a countdown, one step before the timeout, and
\* the timeout is longer than two ticks
C28_Witness ==
    /\ IsPausing(result)
    /\ result.time_remaining = 1
    /\ Elapsed(result) >= 2
    /\ result.timestamp = clock

\* ---------------------------------------------------------------------------
\* C29 as claimed: every live update whose text differs from the last live
\* text emitted results in exactly two events, Transcription(text, false)
\* followed by Status(listening), for every text, the empty one included;
\* only a text equal to the last one emitted results in none.
LiveHandled == h_ticked /\ IsLiveUpdate(result) /\ pc = "sleeping"
LiveEvents == <<Transcription(result.text, FALSE), Status("listening")>>
C29_EveryChangedLiveForwarded ==
    LiveHandled =>
        \/ log = LiveEvents /\ current_student_text = result.text
        \/ log = <<>> /\ result.text = current_student_text

\* C29 as amended: a live update whose text is not empty and differs from
\* the last live text emitted for the phrase results in exactly the two
\* events, in that order; a live update whose text is empty, or equal to the
\* last one emitted, results in no event and leaves the last text as it is.
C29_NonEmptyChangedLiveForwarded ==
    LiveHandled =>
        \/ /\ log = LiveEvents
           /\ result.text # <<>>
           /\ current_student_text = result.text
        \/ /\ log = <<>>
           /\ result.text \in {<<>>, current_student_text}

\* the second live update of a phrase, with a text other than the first, has
\* been forwarded
C29_Witness ==
    /\ LiveHandled
    /\ log = LiveEvents
    /\ Len(h_live) >= 2
    /\ h_live[Len(h_live) - 1].phrase = h_phrases
    /\ h_live[Len(h_live) - 1].text # result.text

\* ---------------------------------------------------------------------------
\* C30: between any two consecutive ticks of one handler loop there is a
\* sleep of the tick interval: after its first tick the loop comes to a tick
\* only from the end of a sleep that lasted the interval, whatever the
\* segmenter returned.
ComesToTick == pc # "tick" /\ pc' = "tick"
C30_SleepBetweenTicks ==
    [][(ComesToTick /\ h_ticked) => (pc = "sleeping" /\ clock >= wake)]_vars

\* ------------------------------------------------- the prompt of a phrase
\* a handler that has just sent the final transcription of a phrase, in a
\* session whose record already holds some turns

MaxRecord == 7
PromptWindow == 6

\* the record before the phrase: the greeting, then student and bot in turn
EarlierTurns(k) ==
    [i \in 1..k |-> Turn(0, IF i % 2 = 1 THEN "bot" ELSE "student",
                         IF i = 1 THEN Greeting ELSE <<ToString(i)>>)]

\* str.upper() of a speaker
upper(s) == IF s = "student" THEN "STUDENT" ELSE IF s = "bot" THEN "BOT" ELSE s

\* s[-n:]
LastOf(s, n) == SubSeq(s, Max(1, Len(s) - n + 1), Len(s))

\* ollama_client.py:136: one line of the history, a text like any other
HistoryLine(msg) == <<upper(msg.speaker), ": ">> \o msg.text
NoPriorConversation == <<<<"(No prior conversation)">>>>

\* ollama_client.py:135-138 without the slice at line 137
HistoryTextOfAll(history) == [i \in 1..Len(history) |-> HistoryLine(history[i])]

\* ollama_client.py:135-138: the lines "\n".join puts together
HistoryText(history) ==
    [i \in 1..Len(LastOf(history, PromptWindow)) |->
        HistoryLine(LastOf(history, PromptWindow)[i])]

\* ollama_client.py:134-151: the prompt, by its three variable sections
generate_socratic_response_stream(student_input, context, history) ==
    [context |-> context,
     history_text |-> IF HistoryText(history) = <<>> THEN NoPriorConversation
                      ELSE HistoryText(history),
     student_input |-> student_input]

\* app.py:266-270: the prompt of the stream that is open
Prompt == generate_socratic_response_stream(result.text, uploaded_context,
                                            conversation_history)

InitPrompt ==
    /\ clock = 0
    /\ pushed = 0
    \* the segmenter after the tick that returned the phrase
    /\ data_queue = <<>>
    /\ phrase_bytes = <<>>
    /\ phrase_time = NoTime
    /\ is_running = TRUE
    /\ listeners = 1
    /\ phrase_timeout = MaxPhraseTimeout
    /\ seg_pc = "idle"
    /\ now = 0
    /\ audio_data = <<>>
    /\ \E raw \in {t \in RawTexts : ~IsBlank(t)} : result = Dict(strip(raw), TRUE, FALSE, 0, 0)
    /\ h_lastArrival = NoTime
    /\ h_gapsOK = TRUE
    /\ h_lastAudioTick = NoTime
    /\ h_completions = 1
    /\ h_pauseThenAudio = FALSE
    /\ h_transcribed = <<>>
    \* the session and its record
    /\ session_active = TRUE
    /\ whisper_stt = TRUE
    /\ session_id = 0
    /\ pdf_context = Essay
    /\ pdf_metadata = PdfMetadata
    /\ \E k \in 1..MaxRecord : conversation = EarlierTurns(k)
    /\ disk = [id \in SessionIds |->
                 IF id = 0 THEN SessionData(0, Essay, PdfMetadata, conversation) ELSE NoFile]
    /\ h_saved = [id \in SessionIds |->
                    IF id = 0 THEN Snapshot(TRUE, conversation, Essay, PdfMetadata)
                    ELSE NoSnapshot]
    /\ h_loaded = NoId
    /\ h_returned = TRUE
    /\ h_started = <<Started(0, TRUE, TRUE)>>
    /\ EssayUploaded
    /\ h_last_n = 0
    \* the handler at line 253
    /\ pc = "student"
    /\ client = "open"
    /\ replay_i = 0
    /\ current_student_text = <<>>
    /\ last_pausing_time = NoTime
    /\ conversation_history = <<>>
    /\ full_response = <<>>
    /\ frags = 0
    /\ wake = 0
    /\ log = <<Transcription(result.text, TRUE)>>
    /\ h_live = <<>>
    /\ h_phrases = 1
    /\ h_pause = NoPause
    /\ h_turns = Len(conversation)
    /\ h_ticked = TRUE
    /\ h_capture = TRUE
    /\ h_rejected = FALSE
    /\ h_threw = FALSE
    /\ h_stopPushed = NoTime
    /\ h_sendsFailed = 0
    /\ peer = "none"
    /\ h_peerTicked = FALSE

NextPrompt ==
    \/ Elapse
    \/ ws_student
    \/ ws_history
    \/ ws_stream_chunk
    \/ ws_stream_end
    \/ ws_bot

SpecPrompt == InitPrompt /\ [][NextPrompt]_vars

\* ---------------------------------------------------------------------------
\* C31: the prompt sent for a finalized phrase holds the essay context, the
\* new phrase and, as its history section, the last min(10, L) turns of the
\* record of L turns as it is when the stream is opened, in append order, each
\* as "SPEAKER: text"; with 10 turns or fewer it holds all of them.
StreamOpen == pc = "stream"
Formatted(turns) == [i \in 1..Len(turns) |-> <<upper(turns[i].speaker), ": ">> \o turns[i].text]
C31_PromptHistory ==
    StreamOpen =>
        /\ Prompt.context = uploaded_context
        /\ Prompt.student_input = result.text
        /\ Prompt.history_text =
               Formatted(LastOf(conversation, Min(HistoryWindow, Len(conversation))))

\* C31, amended: the history section is the last min(6, L) turns of the record
\* as it is when the stream is opened, in append order, each as
\* "SPEAKER: text"; with 6 turns or fewer it holds all of them.
C31_PromptLastSix ==
    StreamOpen =>
        /\ Prompt.context = uploaded_context
        /\ Prompt.student_input = result.text
        /\ Prompt.history_text =
               Formatted(LastOf(conversation, Min(PromptWindow, Len(conversation))))
        /\ Len(conversation) <= PromptWindow =>
               Prompt.history_text = Formatted(conversation)

\* a stream is open on a record longer than the prompt's window
C31_Witness == StreamOpen /\ Len(conversation) > PromptWindow

\* ---------------------------------------------------------------------------
\* C32: the live-text tracker is reset when a phrase completes, empty or not:
\* a live update with a non-empty text is left out only when the same text is
\* the last one emitted for the phrase it belongs to, so the first one of a
\* phrase is forwarded as Transcription(text, false) even when the phrase
\* before it ended on that text; and while no live text of the current phrase
\* has been emitted the tracker is empty.
EmittedThisPhrase == SelectSeq(h_live, LAMBDA e : e.phrase = h_phrases)
InLoop == pc \in {"tick", "dispatch", "sleeping"} /\ h_capture /\ ~h_rejected
C32_TrackerResetPerPhrase ==
    /\ InLoop =>
          current_student_text =
              IF EmittedThisPhrase = <<>> THEN <<>>
              ELSE EmittedThisPhrase[Len(EmittedThisPhrase)].text
    /\ (LiveHandled /\ result.text # <<>>) =>
          /\ log \in {<<>>, LiveEvents}
          /\ EmittedThisPhrase # <<>>
          /\ EmittedThisPhrase[Len(EmittedThisPhrase)].text = result.text

\* the first live update of a second phrase has been forwarded with the text
\* the phrase before it ended on
C32_Witness ==
    /\ LiveHandled
    /\ log = LiveEvents
    /\ h_phrases >= 1
    /\ Len(EmittedThisPhrase) = 1
    /\ Len(h_live) >= 2
    /\ h_live[Len(h_live) - 1].phrase = h_phrases - 1
    /\ h_live[Len(h_live) - 1].text = result.text

\* ------------------------------------------------- two phrases, two clients
\* one session with the shortest pause timeout, and time for a phrase, a
\* disconnect, a reconnect and a second phrase
MaxSessionTime == MaxTime + 1

InitReconnect ==
    /\ clock = 0
    /\ pushed = 0
    /\ NewWhisperSTT(2)
    /\ session_active = TRUE
    /\ whisper_stt = TRUE
    /\ StartedSession
    /\ EssayUploaded
    /\ InitNoHandler

ReconnectElapse == AdvanceTo(MaxSessionTime) /\ UNCHANGED <<segVars, segHist, orchVars>>

NextReconnect ==
    \/ Push
    \/ ReconnectElapse
    \/ ws_connect
    \/ client_disconnect
    \/ ws_start
    \/ ws_unwind
    \/ ws_replay
    \/ ws_tick_begin
    \/ ws_tick_clear
    \/ ws_tick_live
    \/ ws_tick_final
    \/ ws_tick_raise
    \/ ws_none
    \/ ws_pausing
    \/ ws_phrase_empty
    \/ ws_phrase_complete
    \/ ws_student
    \/ ws_history
    \/ ws_stream_chunk
    \/ ws_stream_error
    \/ ws_stream_end
    \/ ws_bot
    \/ ws_live
    \/ ws_live_status
    \/ ws_wake
    \/ ws_except

SpecReconnect == InitReconnect /\ [][NextReconnect]_vars

\* ---------------------------------------------------------------------------
\* C33: after the greeting the turns of the record alternate student, bot,
\* student, bot: no two consecutive turns have the same speaker, whatever the
\* phrases, the disconnects (mid-stream too) and the reconnects.
C33_TurnsAlternate ==
    /\ conversation # <<>> => conversation[1].speaker = "bot"
    /\ \A i \in 1..(Len(conversation) - 1) :
           conversation[i].speaker # conversation[i + 1].speaker

\* ---------------------------------------------------------------------------
\* C34: when a handler's loop has exited the segmenter is idle: the phrase
\* buffer is empty, the time of the last audio is unset and the queue is
\* empty, so that a later connection starts from no earlier audio.
C34_IdleAfterExit ==
    Exited =>
        /\ phrase_bytes = <<>>
        /\ phrase_time = NoTime
        /\ data_queue = <<>>

CanCapture == listeners > 0 /\ pushed < MaxChunks
Answered == pc \in {"sleeping", "tick"} /\ OfType(log, "bot_response_complete") # <<>>
C36_StreamKeepsAudio ==
    /\ []((InResponse \/ Answered) =>
            /\ seg_pc = "idle"
            /\ phrase_bytes = <<>>
            /\ phrase_time = NoTime
            /\ CanCapture => ENABLED Push)
    /\ [][/\ (InResponse \/ Answered) /\ ~TickStarts =>
                /\ seg_pc' = "idle"
                /\ IsPrefix(data_queue, data_queue')
                /\ phrase_bytes' = <<>>
                /\ phrase_time' = NoTime
          /\ (Answered /\ TickStarts /\ data_queue # <<>>) =>
                /\ seg_pc' = "clear"
                /\ audio_data' = Join(data_queue)
                /\ now' = clock
          /\ (seg_pc = "clear" /\ seg_pc' # "clear" /\ phrase_bytes = <<>>) =>
                /\ phrase_bytes' = audio_data
                /\ phrase_time' = now
                /\ now = clock]_vars

\* the answer to a phrase is over, the loop is about to tick, and audio that
\* arrived since the phrase was finalized is waiting in the queue
C36_Witness ==
    /\ pc = "tick"
    /\ Answered
    /\ Join(data_queue) # <<>>

\* ---------------------------------------------------------------------------
\* C37: an ASR failure inside a tick loses no buffered audio: the chunks a
\* new-audio tick drained are in the buffer, and the time of the last audio is
\* that tick's time, before the transcription is called, and a transcription
\* that raises, in a new-audio tick or in a finalization tick, leaves the
\* buffer, the time of the last audio and the queue as they are and returns
\* no result.
Raises == seg_pc \in {"asr_live", "asr_final"} /\ result' = Raised
C37_RaiseKeepsAudio ==
    [][/\ (seg_pc = "clear" /\ seg_pc' # "clear") =>
              /\ seg_pc' = "asr_live"
              /\ phrase_bytes' = phrase_bytes \o audio_data
              /\ phrase_time' = now
       /\ Raises =>
              /\ phrase_bytes' = phrase_bytes
              /\ phrase_time' = phrase_time
              /\ data_queue' = data_queue
              /\ ~IsPhraseComplete(result')
              /\ seg_pc' = "idle"
       /\ (Raises /\ seg_pc = "asr_live") => phrase_time = now
       /\ (Raises /\ seg_pc = "asr_final") =>
              /\ phrase_bytes # <<>>
              /\ phrase_time # NoTime
              /\ h_completions' = h_completions]_vars

\* a transcription has raised with audio in the buffer
C37_Witness ==
    /\ result = Raised
    /\ seg_pc = "idle"
    /\ phrase_bytes # <<>>
    /\ phrase_time # NoTime

====
